---- MODULE Spec2Model ----
(***************************************************************************)
(* A model of the Anodium compositor's desktop layout engine: the surface  *)
(* commit handler (src/src/shell/mod.rs), the per-output layer map         *)
(* (src/src/desktop_layout/layer_map.rs) and the surface-tree walks they   *)
(* run over the per-surface store.                                         *)
(***************************************************************************)
EXTENDS Integers, Sequences, FiniteSets, TLC

\* ------------------------------------------------------------------ bounds
NumSurfaces == 3
MaxToplevels == 2
MaxLayers == 3
MaxZoned == 2

Surfaces == 1..NumSurfaces
\* Two workspaces: the one shown and one to switch to.
WorkspaceIds == {1, 2}

\* ------------------------------------------------------- option and points
None == <<>>
Some(v) == <<v>>
IsSome(o) == o # <<>>
Unwrap(o) == o[1]

Pt(px, py) == [x |-> px, y |-> py]
Sz(sw, sh) == [w |-> sw, h |-> sh]
Origin == Pt(0, 0)
PtAdd(a, b) == Pt(a.x + b.x, a.y + b.y)
PtSub(a, b) == Pt(a.x - b.x, a.y - b.y)

Min(a, b) == IF a <= b THEN a ELSE b
Max(a, b) == IF a >= b THEN a ELSE b

\* Rectangle::from_loc_and_size
RectOf(loc, size) == [x |-> loc.x, y |-> loc.y, w |-> size.w, h |-> size.h]

\* Rectangle::merge: the smallest rectangle holding both.
Merge(a, b) ==
    LET left == Min(a.x, b.x)
        top == Min(a.y, b.y)
        right == Max(a.x + a.w, b.x + b.w)
        bottom == Max(a.y + a.h, b.y + b.h)
    IN  [x |-> left, y |-> top, w |-> right - left, h |-> bottom - top]

\* Rectangle::contains: half-open on the right and bottom edges.
RectContains(r, p) ==
    /\ p.x >= r.x
    /\ p.x < r.x + r.w
    /\ p.y >= r.y
    /\ p.y < r.y + r.h

\* --------------------------------------------------------------- variables
VARIABLES
    alive,                  \* surface -> liveness of the wl_surface
    role,                   \* surface -> "none" | "xdg_toplevel" | "x11" | "subsurface" | "layer"
    parent,                 \* subsurface -> its parent surface (0 when it has none)
    subLocation,            \* SubsurfaceCachedState.location of a subsurface
    syncMode,               \* subsurface -> its own synchronized flag
    cachedBuffer,           \* buffer assignment waiting in the current SurfaceAttributes
    surfaceData,            \* surface -> Option<SurfaceData's buffer size record>
    resize_state,           \* SurfaceData.resize_state
    move_after_resize_state,\* SurfaceData.move_after_resize_state
    initial_configure_sent, \* role attributes: initial_configure_sent
    configured,             \* XdgToplevelSurfaceRoleAttributes.configured
    not_mapped_list,        \* Vec<Window> of the pending-map registry
    workspaces,             \* workspace -> Vec<Window> of its positioner
    active_workspace,
    grabed_window,          \* Option<Window>
    layer_state,            \* surface -> LayerSurfaceCachedState
    layer_map,              \* LayerMap: [surfaces, exclusive_zone]
    output_geometry,        \* the rectangle of the output the layer map belongs to
    mapCount,               \* history: surface -> times its window was promoted
    commitConfigures,       \* history: surface -> initial configures sent by the commit handler
    lastOp,                 \* history: the last commit, tree or layer-map operation
    lastSurface,            \* history: the surface of the last commit (0 before any)
    mappedStepRan,          \* history: the last commit found its surface's window mapped
    floating,               \* Universal.floating: the windows of the Floating strategy
    tiling,                 \* Universal.tiling: the windows of the Tiling strategy
    mode,                   \* Universal.mode
    config_events,          \* the ConfigEvent::Timeout events waiting to be processed
    timers,                 \* the armed timers: (callback, millis) -> how many
    submitted,              \* history: callback -> Timeout events submitted from outside
    executed,               \* history: callback -> times it was executed
    stopped,                \* history: callback -> executions that did not return true
    pending_size,           \* layer surface -> the size in its pending state, None before any
    strategy_calls,         \* history: the strategy calls of the dispatcher's last operation
    space_outputs,          \* the outputs mapped in the space, in the order they were mapped
    space_windows,          \* the windows mapped in the space, topmost first
    pointer_location,       \* the seat's pointer: current_location
    keyboard_focus,         \* the seat's keyboard: Option<surface> that has the focus
    panicked                \* the input handler has panicked: nothing runs after that

storeVars == <<alive, role, parent, subLocation, syncMode, cachedBuffer, surfaceData,
               resize_state, move_after_resize_state>>
shellVars == <<initial_configure_sent, configured>>
windowVars == <<not_mapped_list, workspaces, active_workspace, grabed_window>>
layerVars == <<layer_state, layer_map, output_geometry>>
historyVars == <<mapCount, commitConfigures, lastOp, lastSurface, mappedStepRan>>
positionerVars == <<floating, tiling, mode>>
timerVars == <<config_events, timers, submitted, executed, stopped>>
spaceVars == <<space_outputs, space_windows, pointer_location, keyboard_focus, panicked>>
otherVars == <<positionerVars, timerVars, pending_size, strategy_calls, spaceVars>>
vars == <<storeVars, shellVars, windowVars, layerVars, historyVars, otherVars>>

\* ------------------------------------------------------- the surface tree
\* The live sub-surfaces of s, lowest first (new sub-surfaces are placed on top).
ChildrenUp(s) ==
    SelectSeq([i \in 1..NumSurfaces |-> i],
              LAMBDA c: alive[c] /\ role[c] = "subsurface" /\ parent[c] = s)

Reverse(q) == [i \in 1..Len(q) |-> q[Len(q) + 1 - i]]

\* The order with_surface_tree_downward visits them: topmost first.
ChildrenDown(s) == Reverse(ChildrenUp(s))

RECURSIVE Subtree(_)
Subtree(s) ==
    {s} \cup UNION {Subtree(c) : c \in {ChildrenUp(s)[i] : i \in 1..Len(ChildrenUp(s))}}

\* Mutant: only the sub-surface's own mode counts.
IsSyncSubsurfaceItself(s) == role[s] = "subsurface" /\ syncMode[s]

\* is_sync_subsurface: a sub-surface that is synchronized itself or through an ancestor.
RECURSIVE IsSyncSubsurface(_)
IsSyncSubsurface(s) ==
    /\ role[s] = "subsurface"
    /\ (syncMode[s] \/ IsSyncSubsurface(parent[s]))

\* SurfaceData::size, through data_map.get: nothing without a record or a buffer.
DataSize(data, s) == IF IsSome(data[s]) THEN Unwrap(data[s]).size ELSE None

NoBuffer == [kind |-> "none", size |-> Sz(0, 0)]
RemovedBuffer == [kind |-> "removed", size |-> Sz(0, 0)]
NewBuffer(size) == [kind |-> "new", size |-> size]

\* SurfaceData::default and SurfaceData::update_buffer on attrs.buffer.take().
DefaultSurfaceData == [size |-> None]
UpdateBuffer(d, assignment) ==
    CASE assignment.kind = "new" -> [d EXCEPT !.size = Some(assignment.size)]
      [] assignment.kind = "removed" -> [d EXCEPT !.size = None]
      [] OTHER -> d

\* The buffer walk of surface_commit over the committed surface's tree: every node
\* gets a record if it has none, and takes the buffer its attributes hold.
BufferWalk(s, data, cached) ==
    [n \in Surfaces |->
        IF n \in Subtree(s)
        THEN Some(UpdateBuffer(IF IsSome(data[n]) THEN Unwrap(data[n]) ELSE DefaultSurfaceData,
                               cached[n]))
        ELSE data[n]]

\* ----------------------------------------------------- bounding-box walk
RECURSIVE BBoxNode(_, _, _, _)
RECURSIVE BBoxChildren(_, _, _, _)

\* Mutant: the walk descends below a node without a size.
BBoxNodeDescends(s, loc, box, data) ==
    LET l == IF role[s] = "subsurface" THEN PtAdd(loc, subLocation[s]) ELSE loc
        merged == IF IsSome(DataSize(data, s))
                  THEN Merge(box, RectOf(l, Unwrap(DataSize(data, s))))
                  ELSE box
    IN  BBoxChildren(ChildrenDown(s), l, merged, data)

\* The filter closure of self_update at one node: a node with a size merges its
\* rectangle and descends, a node without one skips its children.
BBoxNode(s, loc, box, data) ==
    IF IsSome(DataSize(data, s))
    THEN LET l == IF role[s] = "subsurface" THEN PtAdd(loc, subLocation[s]) ELSE loc
             merged == Merge(box, RectOf(l, Unwrap(DataSize(data, s))))
         IN  BBoxChildren(ChildrenDown(s), l, merged, data)
    ELSE box

BBoxChildren(cs, loc, box, data) ==
    IF cs = <<>> THEN box
    ELSE BBoxChildren(Tail(cs), loc, BBoxNode(Head(cs), loc, box, data), data)

\* The bounding box self_update stores: a zero-size rectangle at the owner's
\* location merged with the walk, the walk only when the surface is alive.
BoundingBox(s, location, data) ==
    IF alive[s]
    THEN BBoxNode(s, location, RectOf(location, Sz(0, 0)), data)
    ELSE RectOf(location, Sz(0, 0))

\* LayerSurface::self_update
LayerSelfUpdate(l, data, cached) ==
    [l EXCEPT !.bbox = BoundingBox(l.surface, l.location, data),
              !.layer = IF alive[l.surface] THEN cached[l.surface].layer ELSE @]

\* Window::self_update and Window::geometry
WindowSelfUpdate(win, data) ==
    [win EXCEPT !.bbox = BoundingBox(win.toplevel, win.location, data)]
WindowGeometry(win) == win.bbox

\* ------------------------------------------------------------ layer map
Edges == {"TOP", "BOTTOM", "LEFT", "RIGHT"}

\* LayerExclusiveZone::default
DefaultExclusiveZone == [top |-> 0, bottom |-> 0, left |-> 0, right |-> 0]

\* LayerSurfaceCachedState::default
DefaultLayerState == [size |-> Sz(0, 0), anchor |-> {}, exclusive_zone |-> None,
                      layer |-> "Background"]

\* LayerMap::default
EmptyLayerMap == [surfaces |-> <<>>, exclusive_zone |-> DefaultExclusiveZone]

\* SurfaceData::contains_point: the point lies in the buffer's rectangle at the origin.
ContainsPoint(data, s, p) ==
    /\ IsSome(DataSize(data, s))
    /\ RectContains(RectOf(Origin, Unwrap(DataSize(data, s))), p)

RECURSIVE MatchNode(_, _, _, _, _)
RECURSIVE MatchChildren(_, _, _, _, _)

\* The walk of LayerSurface::matching at one node. The filter closure tests the
\* node and always descends; the walk goes on to the next node only while the
\* closure given last, which runs once a node's children are done, sees no match.
MatchNode(s, loc, point, found, data) ==
    LET location == IF role[s] = "subsurface" THEN PtAdd(loc, subLocation[s]) ELSE loc
        here == IF ContainsPoint(data, s, PtSub(point, location))
                THEN Some([surface |-> s, location |-> location])
                ELSE found
        below == MatchChildren(ChildrenDown(s), location, point, here, data)
    IN  IF below.go THEN [found |-> below.found, go |-> ~IsSome(below.found)] ELSE below

MatchChildren(cs, loc, point, found, data) ==
    IF cs = <<>> THEN [found |-> found, go |-> TRUE]
    ELSE LET r == MatchNode(Head(cs), loc, point, found, data)
         IN  IF r.go THEN MatchChildren(Tail(cs), loc, point, r.found, data) ELSE r

\* LayerSurface::matching
Matching(l, point, data) ==
    IF ~RectContains(l.bbox, point) THEN None
    ELSE IF alive[l.surface]
         THEN MatchNode(l.surface, l.location, point, None, data).found
         ELSE None

\* Mutant: the new layer surface goes to the back of the collection.
InsertAtBack(map, surface, layer, data, cached) ==
    LET fresh == [surface |-> surface, location |-> Origin,
                  bbox |-> RectOf(Origin, Sz(0, 0)), layer |-> layer]
    IN  [map EXCEPT !.surfaces = Append(@, LayerSelfUpdate(fresh, data, cached))]

\* LayerMap::insert
Insert(map, surface, layer, data, cached) ==
    LET fresh == [surface |-> surface, location |-> Origin,
                  bbox |-> RectOf(Origin, Sz(0, 0)), layer |-> layer]
    IN  [map EXCEPT !.surfaces = <<LayerSelfUpdate(fresh, data, cached)>> \o @]

\* LayerMap::get_surface_under
RECURSIVE SurfaceUnderFrom(_, _, _, _)
SurfaceUnderFrom(ls, layer, point, data) ==
    IF ls = <<>> THEN None
    ELSE IF Head(ls).layer = layer /\ IsSome(Matching(Head(ls), point, data))
         THEN Matching(Head(ls), point, data)
         ELSE SurfaceUnderFrom(Tail(ls), layer, point, data)

GetSurfaceUnder(map, layer, point, data) ==
    SurfaceUnderFrom(map.surfaces, layer, point, data)

\* Mutant: the layer surfaces are handed over in the order of the collection.
WithLayersFromTopToBottom(map, layer) ==
    SelectSeq(map.surfaces, LAMBDA l: l.layer = layer)

\* LayerMap::with_layers_from_bottom_to_top: the layer surfaces handed to f, in order.
WithLayersFromBottomToTop(map, layer) ==
    Reverse(SelectSeq(map.surfaces, LAMBDA l: l.layer = layer))

\* Mutant: the dead layer surfaces are kept.
RefreshKeepsDead(map, data) ==
    [map EXCEPT !.surfaces =
        [i \in 1..Len(map.surfaces) |-> LayerSelfUpdate(map.surfaces[i], data, layer_state)]]

\* LayerMap::refresh
Refresh(map, data) ==
    LET kept == SelectSeq(map.surfaces, LAMBDA l: alive[l.surface])
    IN  [map EXCEPT !.surfaces =
            [i \in 1..Len(kept) |-> LayerSelfUpdate(kept[i], data, layer_state)]]

\* LayerMap::find
Find(map, surface) ==
    LET hits == SelectSeq(map.surfaces, LAMBDA l: alive[l.surface] /\ l.surface = surface)
    IN  IF hits = <<>> THEN None ELSE Some(Head(hits))

\* Mutant: a requested length of zero is placed by the anchors like any other.
ArangeLocationByAnchors(data, output_rect) ==
    LET px == IF "LEFT" \in data.anchor THEN output_rect.x
              ELSE IF "RIGHT" \in data.anchor
                   THEN output_rect.x + (output_rect.w - data.size.w)
                   ELSE output_rect.x + ((output_rect.w \div 2) - (data.size.w \div 2))
        py == IF "TOP" \in data.anchor THEN output_rect.y
              ELSE IF "BOTTOM" \in data.anchor
                   THEN output_rect.y + (output_rect.h - data.size.h)
                   ELSE output_rect.y + ((output_rect.h \div 2) - (data.size.h \div 2))
    IN  Pt(px, py)

\* The location arange computes for one layer surface.
ArangeLocation(data, output_rect) ==
    LET px == IF data.size.w = 0 \/ "LEFT" \in data.anchor THEN output_rect.x
              ELSE IF "RIGHT" \in data.anchor
                   THEN output_rect.x + (output_rect.w - data.size.w)
                   ELSE output_rect.x + ((output_rect.w \div 2) - (data.size.w \div 2))
        py == IF data.size.h = 0 \/ "TOP" \in data.anchor THEN output_rect.y
              ELSE IF "BOTTOM" \in data.anchor
                   THEN output_rect.y + (output_rect.h - data.size.h)
                   ELSE output_rect.y + ((output_rect.h \div 2) - (data.size.h \div 2))
    IN  Pt(px, py)

\* Mutant: an edge counts when the anchor set holds it.
AddExclusiveContains(zone, data) ==
    IF IsSome(data.exclusive_zone)
    THEN LET v == Unwrap(data.exclusive_zone)
             Hit(e) == IF e \in data.anchor THEN v ELSE 0
         IN  [top |-> zone.top + Hit("TOP"), bottom |-> zone.bottom + Hit("BOTTOM"),
              left |-> zone.left + Hit("LEFT"), right |-> zone.right + Hit("RIGHT")]
    ELSE zone

\* The accumulators after one layer surface has added its exclusive zone.
AddExclusive(zone, data) ==
    IF IsSome(data.exclusive_zone)
    THEN LET v == Unwrap(data.exclusive_zone)
             anchor == data.anchor
             Hit(a, b) == IF anchor = a \/ anchor = b THEN v ELSE 0
         IN  [top |-> zone.top + Hit({"TOP"}, {"TOP", "LEFT", "RIGHT"}),
              bottom |-> zone.bottom + Hit({"BOTTOM"}, {"BOTTOM", "LEFT", "RIGHT"}),
              left |-> zone.left + Hit({"LEFT"}, {"LEFT", "BOTTOM", "TOP"}),
              right |-> zone.right + Hit({"RIGHT"}, {"RIGHT", "BOTTOM", "TOP"})]
    ELSE zone

\* Mutant: the computed location is added to the stored one.
RECURSIVE ArangeFromRelative(_, _, _, _)
ArangeFromRelative(surfs, i, zone, output_rect) ==
    IF i > Len(surfs) THEN [surfaces |-> surfs, exclusive_zone |-> zone]
    ELSE IF ~alive[surfs[i].surface] THEN ArangeFromRelative(surfs, i + 1, zone, output_rect)
         ELSE LET data == layer_state[surfs[i].surface]
              IN  ArangeFromRelative(
                      [surfs EXCEPT ![i].location = PtAdd(@, ArangeLocation(data, output_rect))],
                      i + 1, AddExclusive(zone, data), output_rect)

\* Mutant: a dead surface is arranged like a live one.
RECURSIVE ArangeFromDead(_, _, _, _)
ArangeFromDead(surfs, i, zone, output_rect) ==
    IF i > Len(surfs) THEN [surfaces |-> surfs, exclusive_zone |-> zone]
    ELSE LET data == layer_state[surfs[i].surface]
         IN  ArangeFromDead([surfs EXCEPT ![i].location = ArangeLocation(data, output_rect)],
                            i + 1, AddExclusive(zone, data), output_rect)

\* The loop of arange from the i-th layer surface on: a dead surface is passed over.
RECURSIVE ArangeFrom(_, _, _, _)
ArangeFrom(surfs, i, zone, output_rect) ==
    IF i > Len(surfs) THEN [surfaces |-> surfs, exclusive_zone |-> zone]
    ELSE IF ~alive[surfs[i].surface] THEN ArangeFrom(surfs, i + 1, zone, output_rect)
         ELSE LET data == layer_state[surfs[i].surface]
              IN  ArangeFrom([surfs EXCEPT ![i].location = ArangeLocation(data, output_rect)],
                             i + 1, AddExclusive(zone, data), output_rect)

\* Mutant: the accumulators are not reset.
ArangeNoReset(map, output_rect) ==
    ArangeFrom(map.surfaces, 1, map.exclusive_zone, output_rect)

\* LayerMap::arange
Arange(map, output_rect) ==
    ArangeFrom(map.surfaces, 1, DefaultExclusiveZone, output_rect)

\* The layer surfaces arange configures: the live ones of the map.
ArangeConfigured(map) ==
    {map.surfaces[i].surface : i \in {j \in 1..Len(map.surfaces) : alive[map.surfaces[j].surface]}}

\* LayerSurface::send_frame: the surfaces the frame callbacks are sent to, those of
\* the tree of a live surface.
SendFrame(l) == IF alive[l.surface] THEN Subtree(l.surface) ELSE {}

\* LayerMap::send_frames
SendFrames(map) == UNION {SendFrame(map.surfaces[i]) : i \in 1..Len(map.surfaces)}

\* Lines 237-242: the size arange puts in the pending state of a layer surface
\* it configures.
ArangePendingSize(data, output_rect) == Some(Sz(output_rect.w, output_rect.h))

\* The pending sizes after arange: those of the layer surfaces it configures are set.
ArangeSizes(map, output_rect, sizes) ==
    [s \in Surfaces |->
        IF s \in ArangeConfigured(map)
        THEN ArangePendingSize(layer_state[s], output_rect)
        ELSE sizes[s]]

\* ------------------------------------------------- windows and workspaces
NewWindow(s, kind) ==
    [toplevel |-> s, kind |-> kind, location |-> Origin, bbox |-> RectOf(Origin, Sz(0, 0))]

\* The index of the first window of the list on this surface, 0 when there is none
\* (NotMappedList::find_mut, Positioner::find_window_mut).
FindWindow(list, s) ==
    LET hits == {i \in 1..Len(list) : list[i].toplevel = s}
    IN  IF hits = {} THEN 0 ELSE CHOOSE i \in hits : \A j \in hits : i <= j

RemoveAt(list, i) == [j \in 1..(Len(list) - 1) |-> IF j < i THEN list[j] ELSE list[j + 1]]

\* Positioner::map_toplevel: the window joins the workspace's window list.
MapToplevel(windows, win) == <<win>> \o windows

\* Window::set_location
SetLocation(win, location, data) ==
    WindowSelfUpdate([win EXCEPT !.location = location], data)

\* The workspaces the commit handler updates windows in.
VisibleWorkspaces == <<active_workspace>>

Occurrences(list, s) == Cardinality({i \in 1..Len(list) : list[i].toplevel = s})
MappedCount(wss, s) ==
    LET RECURSIVE Sum(_)
        Sum(todo) == IF todo = {} THEN 0
                     ELSE LET ws == CHOOSE w \in todo : TRUE
                          IN  Occurrences(wss[ws], s) + Sum(todo \ {ws})
    IN  Sum(WorkspaceIds)

\* ------------------------------------------------ surface_commit, by step
\* Mutant: the flag is not looked at.
SendsInitialConfigureAlways(win) == win.kind = "Xdg"

\* Lines 85-98: the initial configure goes out to a shell toplevel that has none yet.
SendsInitialConfigure(win) ==
    win.kind = "Xdg" /\ ~initial_configure_sent[win.toplevel]

\* Mutant: the configured flag is not looked at.
PromotableUnconfigured(win) ==
    LET size == WindowGeometry(win)
    IN  size.w # 0 /\ size.h # 0

\* Lines 101-134: the window is promoted when its geometry is non-empty and, for a
\* shell toplevel, the client has acknowledged a configure.
Promotable(win) ==
    LET size == WindowGeometry(win)
    IN  /\ size.w # 0
        /\ size.h # 0
        /\ (win.kind = "Xdg" => configured[win.toplevel])

\* Mutant: the window is mapped and stays in the registry.
PromoteKeepsEntry(list, wss, i) ==
    [not_mapped_list |-> list,
     workspaces |-> [wss EXCEPT ![active_workspace] = MapToplevel(@, list[i])]]

\* Lines 117-122 and 127-132: the window leaves the registry and is mapped in the
\* active workspace.
Promote(list, wss, i) ==
    [not_mapped_list |-> RemoveAt(list, i),
     workspaces |-> [wss EXCEPT ![active_workspace] = MapToplevel(@, list[i])]]

\* Lines 77-137.
PendingStep(s, data) ==
    LET i == FindWindow(not_mapped_list, s)
        updated == [not_mapped_list EXCEPT ![i] = WindowSelfUpdate(@, data)]
        sends == SendsInitialConfigure(updated[i])
        promotes == Promotable(updated[i])
        moved == Promote(updated, workspaces, i)
    IN  IF i = 0
        THEN [not_mapped_list |-> not_mapped_list, workspaces |-> workspaces,
              sends |-> FALSE, promotes |-> FALSE]
        ELSE [not_mapped_list |-> IF promotes THEN moved.not_mapped_list ELSE updated,
              workspaces |-> IF promotes THEN moved.workspaces ELSE workspaces,
              sends |-> sends, promotes |-> promotes]

NotResizing == [tag |-> "NotResizing", edges |-> {}, initial_window_location |-> Origin,
                initial_window_size |-> Sz(0, 0)]
NoMoveAfterResize == [tag |-> "None", target_window_location |-> Origin]

\* Mutant: the window stays where the resize began.
ResizeLocationKeepsCorner(win, rs) ==
    IF rs.tag # "NotResizing" /\ rs.edges \cap {"TOP", "LEFT"} # {}
    THEN Some(rs.initial_window_location)
    ELSE None

\* Lines 158-184: the location that keeps the opposite edge of a resize from the
\* top or the left in place.
ResizeLocation(win, rs) ==
    LET geometry == WindowGeometry(win)
    IN  IF rs.tag # "NotResizing" /\ rs.edges \cap {"TOP", "LEFT"} # {}
        THEN Some(Pt(IF "LEFT" \in rs.edges
                     THEN rs.initial_window_location.x + (rs.initial_window_size.w - geometry.w)
                     ELSE win.location.x,
                     IF "TOP" \in rs.edges
                     THEN rs.initial_window_location.y + (rs.initial_window_size.h - geometry.h)
                     ELSE win.location.y))
        ELSE None

\* Mutant: a commit leaves WaitingForCommit as it is.
FinishResizingNever(rs) == rs

\* Lines 186-189: the commit that was waited for ends the resize.
FinishResizing(rs) == IF rs.tag = "WaitingForCommit" THEN NotResizing ELSE rs

\* Mutant: the resize compensation wins over the pending move.
MoveLocationAfterResize(resized, mars) ==
    IF IsSome(resized) THEN resized
    ELSE IF mars.tag = "WaitingForCommit" THEN Some(mars.target_window_location)
    ELSE None

\* Lines 192-194: a pending move replaces whatever the resize resolved.
MoveLocation(resized, mars) ==
    IF mars.tag = "WaitingForCommit" THEN Some(mars.target_window_location) ELSE resized

\* Lines 192-198, 222-226: WaitingForCommit(mdata) becomes Current(mdata).
LatchMove(mars) ==
    IF mars.tag = "WaitingForCommit" THEN [mars EXCEPT !.tag = "Current"] ELSE mars

\* Lines 143-207 for one visible workspace, on the state the workspaces before it left.
MappedUpdate(st, ws, s, data) ==
    LET i == FindWindow(st.workspaces[ws], s)
        win == WindowSelfUpdate(st.workspaces[ws][i], data)
        rs == st.resize_state[s]
        mars == st.move_after_resize_state[s]
        new_location == MoveLocation(ResizeLocation(win, rs), mars)
    IN  IF i = 0 THEN st
        ELSE [workspaces |->
                [st.workspaces EXCEPT ![ws][i] =
                    IF IsSome(new_location) THEN SetLocation(win, Unwrap(new_location), data)
                    ELSE win],
              resize_state |-> [st.resize_state EXCEPT ![s] = FinishResizing(@)],
              move_after_resize_state |->
                [st.move_after_resize_state EXCEPT ![s] = LatchMove(@)],
              updated |-> st.updated \cup {ws}]

\* Lines 139-208: the loop over the visible workspaces.
RECURSIVE MappedStepOver(_, _, _, _)
MappedStepOver(visible, st, s, data) ==
    IF visible = <<>> THEN st
    ELSE MappedStepOver(Tail(visible), MappedUpdate(st, Head(visible), s, data), s, data)

\* Mutant: the mapped-window step is the else branch of the pending-window step.
MappedStepUnlessPending(s, data, wss) ==
    IF FindWindow(not_mapped_list, s) # 0
    THEN [workspaces |-> wss, resize_state |-> resize_state,
          move_after_resize_state |-> move_after_resize_state, updated |-> {}]
    ELSE MappedStepOver(VisibleWorkspaces,
                        [workspaces |-> wss, resize_state |-> resize_state,
                         move_after_resize_state |-> move_after_resize_state,
                         updated |-> {}],
                        s, data)

\* Lines 139-208, on the workspaces the pending-window step left.
MappedStep(s, data, wss) ==
    MappedStepOver(VisibleWorkspaces,
                   [workspaces |-> wss, resize_state |-> resize_state,
                    move_after_resize_state |-> move_after_resize_state, updated |-> {}],
                   s, data)

\* Mutant: any commit latches the grabbed window's move.
GrabStepOnAnyCommit(s, mars) ==
    IF IsSome(grabed_window) /\ alive[Unwrap(grabed_window).toplevel]
    THEN [mars EXCEPT ![Unwrap(grabed_window).toplevel] = LatchMove(@)]
    ELSE mars

\* Lines 210-231: a commit of the grabbed window's surface latches its move.
GrabStep(s, mars) ==
    IF /\ IsSome(grabed_window)
       /\ alive[Unwrap(grabed_window).toplevel]
       /\ Unwrap(grabed_window).toplevel = s
    THEN [mars EXCEPT ![s] = LatchMove(@)]
    ELSE mars

\* What the history records for an arrangement pass: a second pass in a row is told
\* from a first.
ArrangedOps == {"arrange", "arrange_again"}
ArrangedAfter(op) == IF op \in ArrangedOps THEN "arrange_again" ELSE "arrange"

\* Mutant: a layer surface counts only while its initial configure is to be sent.
FoundLayerUnconfigured(s) == IsSome(Find(layer_map, s)) /\ ~initial_configure_sent[s]

\* Lines 253-273: the commit is of a live layer surface of the output's layer map.
FoundLayer(s) == IsSome(Find(layer_map, s))

\* The borrows of the two shared stores, each a RefCell, in the order the commit
\* handler takes and drops them.
BorrowMut(store) == [op |-> "borrow_mut", store |-> store]
BorrowShared(store) == [op |-> "borrow", store |-> store]
DropMut(store) == [op |-> "drop_mut", store |-> store]
DropShared(store) == [op |-> "drop", store |-> store]
Stores == {"not_mapped_list", "desktop_layout"}

\* Mutant: the shared borrow of the layer lookup is still held when the arrangement
\* pass borrows the layout mutably.
CommitBorrowsHeldOverArrange(promotes, found) ==
    <<BorrowMut("not_mapped_list")>>
    \o (IF promotes THEN <<BorrowMut("desktop_layout"), DropMut("desktop_layout")>> ELSE <<>>)
    \o <<DropMut("not_mapped_list"),
         BorrowMut("desktop_layout"), DropMut("desktop_layout"),
         BorrowShared("desktop_layout"), DropShared("desktop_layout"),
         BorrowShared("desktop_layout")>>
    \o (IF found THEN <<BorrowMut("desktop_layout"), DropMut("desktop_layout")>> ELSE <<>>)
    \o <<DropShared("desktop_layout")>>

\* Lines 77-277: the pending-map registry is borrowed for the pending block (79-137)
\* and the layout inside it to map the promoted window (120-122, 130-132); the
\* layout is borrowed mutably for the loop over the visible workspaces (142-208),
\* shared for the grab block (211-231) and for the layer lookup (253-273), and
\* mutably for the arrangement pass (276).
CommitBorrows(promotes, found) ==
    <<BorrowMut("not_mapped_list")>>
    \o (IF promotes THEN <<BorrowMut("desktop_layout"), DropMut("desktop_layout")>> ELSE <<>>)
    \o <<DropMut("not_mapped_list"),
         BorrowMut("desktop_layout"), DropMut("desktop_layout"),
         BorrowShared("desktop_layout"), DropShared("desktop_layout"),
         BorrowShared("desktop_layout"), DropShared("desktop_layout")>>
    \o (IF found THEN <<BorrowMut("desktop_layout"), DropMut("desktop_layout")>> ELSE <<>>)

\* RefCell's run-time check over a sequence of borrows: a mutable borrow needs the
\* store free, a shared one needs no mutable borrow of it live.
RECURSIVE BorrowsOkFrom(_, _, _)
BorrowsOkFrom(trace, i, held) ==
    IF i > Len(trace) THEN TRUE
    ELSE LET e == trace[i]
             h == held[e.store]
         IN  CASE e.op = "borrow_mut" ->
                    /\ h.mut = 0 /\ h.shared = 0
                    /\ BorrowsOkFrom(trace, i + 1, [held EXCEPT ![e.store].mut = 1])
               [] e.op = "borrow" ->
                    /\ h.mut = 0
                    /\ BorrowsOkFrom(trace, i + 1, [held EXCEPT ![e.store].shared = @ + 1])
               [] e.op = "drop_mut" ->
                    BorrowsOkFrom(trace, i + 1, [held EXCEPT ![e.store].mut = 0])
               [] e.op = "drop" ->
                    BorrowsOkFrom(trace, i + 1, [held EXCEPT ![e.store].shared = @ - 1])

BorrowsOk(trace) == BorrowsOkFrom(trace, 1, [st \in Stores |-> [mut |-> 0, shared |-> 0]])

\* Anodium::surface_commit for a commit of surface s that attaches, removes or
\* keeps its buffer.
SurfaceCommit(s, b) ==
    /\ alive[s]
    /\ \E attrs \in {[cachedBuffer EXCEPT ![s] = IF b.kind = "none" THEN @ ELSE b]},
          walks \in {~IsSyncSubsurface(s)}, found \in {FoundLayer(s)} :
       \E data \in {IF walks THEN BufferWalk(s, surfaceData, attrs) ELSE surfaceData} :
       \E p \in {PendingStep(s, data)} :
       \E m \in {MappedStep(s, data, p.workspaces)} :
           /\ cachedBuffer' = IF walks
                              THEN [n \in Surfaces |->
                                       IF n \in Subtree(s) THEN NoBuffer ELSE attrs[n]]
                              ELSE attrs
           /\ surfaceData' = data
           /\ not_mapped_list' = p.not_mapped_list
           /\ workspaces' = m.workspaces
           /\ resize_state' = m.resize_state
           /\ move_after_resize_state' = GrabStep(s, m.move_after_resize_state)
           /\ initial_configure_sent' =
                [n \in Surfaces |->
                    \/ initial_configure_sent[n]
                    \/ (n = s /\ (p.sends \/ found))
                    \/ (found /\ n \in ArangeConfigured(layer_map))]
           /\ layer_map' = IF found THEN Arange(layer_map, output_geometry) ELSE layer_map
           /\ pending_size' = IF found
                              THEN ArangeSizes(layer_map, output_geometry, pending_size)
                              ELSE pending_size
           /\ mapCount' = [mapCount EXCEPT ![s] = IF p.promotes THEN @ + 1 ELSE @]
           /\ commitConfigures' =
                [commitConfigures EXCEPT ![s] =
                    IF p.sends \/ (found /\ ~initial_configure_sent[s]) THEN @ + 1 ELSE @]
           /\ lastOp' = IF found THEN ArrangedAfter(lastOp) ELSE "commit"
           /\ lastSurface' = s
           /\ mappedStepRan' = (m.updated # {})
    /\ UNCHANGED <<alive, role, parent, subLocation, syncMode, configured,
                   active_workspace, grabed_window, layer_state, output_geometry,
                   positionerVars, timerVars, strategy_calls, spaceVars>>

\* The surface the next role is given to: surfaces are named in the order they
\* take their roles.
NextUnused(s) == role[s] = "none" /\ \A t \in Surfaces : t < s => role[t] # "none"

\* A new shell or X11 toplevel: its window waits in the pending-map registry.
NewToplevel(s, kind) ==
    /\ alive[s]
    /\ NextUnused(s)
    /\ Cardinality({t \in Surfaces : role[t] \in {"xdg_toplevel", "x11"}}) < MaxToplevels
    /\ role' = [role EXCEPT ![s] = IF kind = "Xdg" THEN "xdg_toplevel" ELSE "x11"]
    /\ not_mapped_list' = Append(not_mapped_list, NewWindow(s, kind))
    /\ UNCHANGED <<alive, parent, subLocation, syncMode, cachedBuffer, surfaceData,
                   resize_state, move_after_resize_state, shellVars, workspaces,
                   active_workspace, grabed_window, layerVars, historyVars, otherVars>>

\* The client acknowledges a configure of its shell toplevel: one must have been sent.
XdgAckConfigure(s) ==
    /\ alive[s]
    /\ role[s] = "xdg_toplevel"
    /\ initial_configure_sent[s]
    /\ ~configured[s]
    /\ configured' = [configured EXCEPT ![s] = TRUE]
    /\ UNCHANGED <<storeVars, initial_configure_sent, windowVars, layerVars, historyVars, otherVars>>

\* ConfigEvent::SwitchWorkspace
SwitchWorkspace(ws) ==
    /\ ws # active_workspace
    /\ active_workspace' = ws
    /\ UNCHANGED <<storeVars, shellVars, not_mapped_list, workspaces, grabed_window,
                   layerVars, historyVars, otherVars>>

\* ------------------------------------------------------- the commit model
BufferSizes == {Sz(2, 2)}
BufferAssignments == {NoBuffer, RemovedBuffer} \cup {NewBuffer(z) : z \in BufferSizes}
ToplevelKinds == {"Xdg", "X11"}
DefaultOutput == [x |-> 0, y |-> 0, w |-> 4, h |-> 4]

InitStore ==
    /\ alive = [s \in Surfaces |-> TRUE]
    /\ role = [s \in Surfaces |-> "none"]
    /\ parent = [s \in Surfaces |-> 0]
    /\ subLocation = [s \in Surfaces |-> Origin]
    /\ syncMode = [s \in Surfaces |-> FALSE]
    /\ cachedBuffer = [s \in Surfaces |-> NoBuffer]
    /\ surfaceData = [s \in Surfaces |-> None]
    /\ resize_state = [s \in Surfaces |-> NotResizing]
    /\ move_after_resize_state = [s \in Surfaces |-> NoMoveAfterResize]

InitShell ==
    /\ initial_configure_sent = [s \in Surfaces |-> FALSE]
    /\ configured = [s \in Surfaces |-> FALSE]

InitWindows ==
    /\ not_mapped_list = <<>>
    /\ workspaces = [ws \in WorkspaceIds |-> <<>>]
    /\ active_workspace = 1
    /\ grabed_window = None

InitHistory ==
    /\ mapCount = [s \in Surfaces |-> 0]
    /\ commitConfigures = [s \in Surfaces |-> 0]
    /\ lastOp = "init"
    /\ lastSurface = 0
    /\ mappedStepRan = FALSE

\* The callbacks a configuration script may hand to Timeout, and the delays.
Callbacks == {"tick", "poll"}
Delays == {10, 20}
TimerKeys == [callback : Callbacks, millis : Delays]

InitLayers ==
    /\ layer_state = [s \in Surfaces |-> DefaultLayerState]
    /\ layer_map = EmptyLayerMap
    /\ output_geometry = DefaultOutput
    /\ pending_size = [s \in Surfaces |-> None]

\* Universal::new: both strategies empty, mode Floating.
InitPositioner ==
    /\ floating = <<>>
    /\ tiling = <<>>
    /\ mode = "Floating"
    /\ strategy_calls = <<>>

\* No configuration event is waiting and no timer is armed at start.
InitTimers ==
    /\ config_events = <<>>
    /\ timers = [k \in TimerKeys |-> 0]
    /\ submitted = [cb \in Callbacks |-> 0]
    /\ executed = [cb \in Callbacks |-> 0]
    /\ stopped = [cb \in Callbacks |-> 0]

\* The space of the compositor at start: no output and no window yet, the pointer
\* at the origin, no keyboard focus.
InitSpace ==
    /\ space_outputs = <<>>
    /\ space_windows = <<>>
    /\ pointer_location = Origin
    /\ keyboard_focus = None
    /\ panicked = FALSE

Init ==
    /\ InitStore
    /\ InitShell
    /\ InitWindows
    /\ InitLayers
    /\ InitHistory
    /\ InitPositioner
    /\ InitTimers
    /\ InitSpace

NextCommit ==
    \/ \E s \in Surfaces, k \in ToplevelKinds : NewToplevel(s, k)
    \/ \E s \in Surfaces : XdgAckConfigure(s)
    \/ \E s \in {x \in Surfaces : role[x] # "none"}, b \in BufferAssignments :
            SurfaceCommit(s, b)
    \/ \E ws \in WorkspaceIds : SwitchWorkspace(ws)

SpecCommit == Init /\ [][NextCommit]_vars

\* ------------------------------------------------------ the layer model
\* LayerShellRequest::NewLayerSurface: the surface takes the layer role with the
\* state its client gave it, and joins the layer map of the output.
NewLayerSurface(s, layer, st) ==
    /\ alive[s]
    /\ NextUnused(s)
    /\ Cardinality({t \in Surfaces : role[t] = "layer"}) < MaxLayers
    /\ role' = [role EXCEPT ![s] = "layer"]
    /\ layer_state' = [layer_state EXCEPT ![s] = st]
    /\ layer_map' = Insert(layer_map, s, layer, surfaceData, layer_state')
    /\ lastOp' = "insert"
    /\ UNCHANGED <<alive, parent, subLocation, syncMode, cachedBuffer, surfaceData,
                   resize_state, move_after_resize_state, shellVars, windowVars,
                   output_geometry, mapCount, commitConfigures, lastSurface, mappedStepRan, otherVars>>

\* LayerShellRequest::AckConfigure, from a layer surface that was sent a configure:
\* every layer map is arranged again.
LayerAckConfigure(s) ==
    /\ alive[s]
    /\ role[s] = "layer"
    /\ initial_configure_sent[s]
    /\ layer_map' = Arange(layer_map, output_geometry)
    /\ initial_configure_sent' =
         [n \in Surfaces |-> initial_configure_sent[n] \/ n \in ArangeConfigured(layer_map)]
    /\ pending_size' = ArangeSizes(layer_map, output_geometry, pending_size)
    /\ lastOp' = ArrangedAfter(lastOp)
    /\ UNCHANGED <<storeVars, configured, windowVars, layer_state, output_geometry,
                   mapCount, commitConfigures, lastSurface, mappedStepRan,
                   positionerVars, timerVars, strategy_calls, spaceVars>>

\* The refresh of the layer map in the compositor's update pass.
RefreshLayers ==
    /\ layer_map' = Refresh(layer_map, surfaceData)
    /\ lastOp' = "refresh"
    /\ UNCHANGED <<storeVars, shellVars, windowVars, layer_state, output_geometry,
                   mapCount, commitConfigures, lastSurface, mappedStepRan, otherVars>>

\* The client destroys a surface: it is dead from now on and its state is dropped.
SurfaceDestroyed(s) ==
    /\ alive[s]
    /\ role[s] # "none"
    /\ alive' = [alive EXCEPT ![s] = FALSE]
    /\ surfaceData' = [surfaceData EXCEPT ![s] = None]
    /\ cachedBuffer' = [cachedBuffer EXCEPT ![s] = NoBuffer]
    /\ layer_state' = [layer_state EXCEPT ![s] = DefaultLayerState]
    /\ initial_configure_sent' = [initial_configure_sent EXCEPT ![s] = FALSE]
    /\ pending_size' = [pending_size EXCEPT ![s] = None]
    /\ lastOp' = "destroy"
    /\ UNCHANGED <<role, parent, subLocation, syncMode, resize_state,
                   move_after_resize_state, configured, windowVars, layer_map,
                   output_geometry, mapCount, commitConfigures, lastSurface, mappedStepRan,
                   positionerVars, timerVars, strategy_calls, spaceVars>>

\* The output takes another mode or place in the layout.
OutputRects == {DefaultOutput, [x |-> 4, y |-> 0, w |-> 6, h |-> 4]}
OutputChanged(rect) ==
    /\ rect # output_geometry
    /\ output_geometry' = rect
    /\ lastOp' = "output"
    /\ UNCHANGED <<storeVars, shellVars, windowVars, layer_state, layer_map,
                   mapCount, commitConfigures, lastSurface, mappedStepRan, otherVars>>

Tiers == {"Background", "Bottom", "Top", "Overlay"}

\* The states of the layer surfaces of the exclusive-zone model. The first layer
\* surface takes every anchor set, with and without an exclusive thickness, and
\* requests no size; the ones after it are a bar on the left or a surface in the
\* bottom right corner. MaxZoned layer surfaces take part.
ZoneState(z, a, e) == [size |-> z, anchor |-> a, exclusive_zone |-> e, layer |-> "Top"]
ZoneStates(s) ==
    IF Cardinality({t \in Surfaces : role[t] = "layer"}) >= MaxZoned THEN {}
    ELSE IF \A t \in Surfaces : role[t] # "layer"
    THEN {ZoneState(Sz(0, 0), a, e) : a \in SUBSET Edges, e \in {None, Some(25)}}
    ELSE {ZoneState(Sz(2, 0), {"LEFT"}, Some(40)), ZoneState(Sz(2, 2), {"RIGHT", "BOTTOM"}, Some(25))}

LayerSurfaces == {s \in Surfaces : role[s] = "layer"}

NextZone ==
    \/ \E s \in Surfaces : \E st \in ZoneStates(s) : NewLayerSurface(s, st.layer, st)
    \/ \E s \in LayerSurfaces : SurfaceCommit(s, NoBuffer)
    \/ \E s \in LayerSurfaces : LayerAckConfigure(s)
    \/ RefreshLayers
    \/ \E s \in LayerSurfaces : SurfaceDestroyed(s)

SpecZone == Init /\ [][NextZone]_vars

\* ------------------------------------------------------ the stacking model
\* The states of the layer surfaces of the stacking model: any of two tiers, no
\* anchor and no requested size, so that the surfaces lie over each other.
StackTiers == {"Bottom", "Top"}
StackStates == {[size |-> Sz(0, 0), anchor |-> {}, exclusive_zone |-> None, layer |-> t] :
                    t \in StackTiers}
StackBuffers == {NewBuffer(Sz(2, 2))}

\* The points a pointer is looked up at.
Points == {Pt(1, 1), Pt(3, 3), Pt(5, 1)}

NextStack ==
    \/ \E s \in Surfaces, layer \in StackTiers, st \in StackStates : NewLayerSurface(s, layer, st)
    \/ \E s \in LayerSurfaces, b \in StackBuffers : SurfaceCommit(s, b)
    \/ RefreshLayers
    \/ \E rect \in OutputRects : OutputChanged(rect)

SpecStack == Init /\ [][NextStack]_vars

\* ------------------------------------------------------ the layer commit model
\* Up to MaxZoned layer surfaces are created and destroyed, and every surface
\* commits, with a role or without.
NextLayerCommit ==
    \/ \E s \in Surfaces, st \in StackStates :
            Cardinality(LayerSurfaces) < MaxZoned /\ NewLayerSurface(s, st.layer, st)
    \/ \E s \in Surfaces : SurfaceCommit(s, NoBuffer)
    \/ \E s \in LayerSurfaces : SurfaceDestroyed(s)

SpecLayerCommit == Init /\ [][NextLayerCommit]_vars

\* ---------------------------------------------------------- the tree model
\* wl_subcompositor.get_subsurface: the surface becomes a sub-surface of a surface
\* that has a role, on top of the sub-surfaces the parent has, at the place and in
\* the mode its client sets.
NewSubsurface(s, p, location, sync) ==
    /\ alive[s] /\ alive[p]
    /\ NextUnused(s)
    /\ role[p] # "none"
    /\ role' = [role EXCEPT ![s] = "subsurface"]
    /\ parent' = [parent EXCEPT ![s] = p]
    /\ subLocation' = [subLocation EXCEPT ![s] = location]
    /\ syncMode' = [syncMode EXCEPT ![s] = sync]
    /\ lastOp' = "subsurface"
    /\ UNCHANGED <<alive, cachedBuffer, surfaceData, resize_state, move_after_resize_state,
                   shellVars, windowVars, layerVars, mapCount, commitConfigures,
                   lastSurface, mappedStepRan, otherVars>>

\* A sub-surface is placed below and right of its parent or left of it; its client
\* has set it desynchronized, so that its commits take effect at once.
SubPlacements == {[location |-> Pt(1, 1), sync |-> FALSE], [location |-> Pt(-1, 2), sync |-> FALSE]}
TreeState == [size |-> Sz(0, 0), anchor |-> {}, exclusive_zone |-> None, layer |-> "Top"]
TreeBuffers == {NewBuffer(Sz(2, 2)), RemovedBuffer}
Subsurfaces == {s \in Surfaces : role[s] = "subsurface"}

\* The tree model has one owner, a layer surface or a window, and the sub-surfaces
\* under it.
NoOwner == \A s \in Surfaces : role[s] = "none"

NextTree ==
    \/ \E s \in Surfaces : NoOwner /\ NewLayerSurface(s, TreeState.layer, TreeState)
    \/ \E s \in Surfaces : NoOwner /\ NewToplevel(s, "X11")
    \/ \E s \in Surfaces, p \in Surfaces, at \in SubPlacements :
            NewSubsurface(s, p, at.location, at.sync)
    \/ \E s \in {x \in Surfaces : role[x] # "none"}, b \in TreeBuffers : SurfaceCommit(s, b)
    \/ RefreshLayers
    \/ \E s \in Subsurfaces : SurfaceDestroyed(s)

SpecTree == Init /\ [][NextTree]_vars

\* ------------------------------------------------------ the sync model
\* A sub-surface is synchronized with its parent, as it is when created, or has
\* been set desynchronized by its client.
SyncPlacements == {[location |-> Pt(1, 1), sync |-> TRUE], [location |-> Pt(1, 1), sync |-> FALSE]}

\* The sync model has one window and the sub-surfaces under it, in either mode.
NextSync ==
    \/ \E s \in Surfaces : NoOwner /\ NewToplevel(s, "X11")
    \/ \E s \in Surfaces, p \in Surfaces, at \in SyncPlacements :
            NewSubsurface(s, p, at.location, at.sync)
    \/ \E s \in {x \in Surfaces : role[x] # "none"}, b \in TreeBuffers : SurfaceCommit(s, b)

SpecSync == Init /\ [][NextSync]_vars

\* ------------------------------------------------------ the grab model
\* The workspace and the place of the mapped window of surface s, none when it
\* is in no workspace.
MappedAt(wss, s) ==
    {at \in [ws : WorkspaceIds, i : 1..MaxToplevels] :
        at.i <= Len(wss[at.ws]) /\ at.i = FindWindow(wss[at.ws], s)}

ResizeEdgeSets == {{"TOP", "LEFT"}, {"LEFT"}, {"TOP"}, {"BOTTOM", "RIGHT"}}
\* The locations a resize grab is started at, and the target of a scheduled move.
MoveTargets == {Pt(100, 100)}
ResizeStarts == {Origin} \cup MoveTargets

\* A resize request for a window on screen: the grab captures the edges and the
\* window's location and size.
ResizeRequest(s, edges) ==
    /\ alive[s]
    /\ resize_state[s].tag = "NotResizing"
    /\ \E at \in MappedAt(workspaces, s) :
         \E win \in {workspaces[at.ws][at.i]} :
           /\ at.ws = active_workspace
           /\ win.location \in ResizeStarts
           /\ resize_state' =
                [resize_state EXCEPT ![s] =
                    [tag |-> "Resizing", edges |-> edges,
                     initial_window_location |-> win.location,
                     initial_window_size |-> Sz(WindowGeometry(win).w, WindowGeometry(win).h)]]
    /\ lastOp' = "grab"
    /\ UNCHANGED <<alive, role, parent, subLocation, syncMode, cachedBuffer, surfaceData,
                   move_after_resize_state, shellVars, windowVars, layerVars,
                   mapCount, commitConfigures, lastSurface, mappedStepRan, otherVars>>

\* The grab ends: the final configure is sent and its acknowledgement awaited.
ResizeGrabEnded(s) ==
    /\ alive[s]
    /\ resize_state[s].tag = "Resizing"
    /\ resize_state' = [resize_state EXCEPT ![s].tag = "WaitingForFinalAck"]
    /\ lastOp' = "grab"
    /\ UNCHANGED <<alive, role, parent, subLocation, syncMode, cachedBuffer, surfaceData,
                   move_after_resize_state, shellVars, windowVars, layerVars,
                   mapCount, commitConfigures, lastSurface, mappedStepRan, otherVars>>

\* The client acknowledges the final configure of the resize.
ResizeAckConfigure(s) ==
    /\ alive[s]
    /\ resize_state[s].tag = "WaitingForFinalAck"
    /\ resize_state' = [resize_state EXCEPT ![s].tag = "WaitingForCommit"]
    /\ lastOp' = "grab"
    /\ UNCHANGED <<alive, role, parent, subLocation, syncMode, cachedBuffer, surfaceData,
                   move_after_resize_state, shellVars, windowVars, layerVars,
                   mapCount, commitConfigures, lastSurface, mappedStepRan, otherVars>>

\* A move of a mapped window is scheduled for its next commit.
ScheduleMove(s, target) ==
    /\ alive[s]
    /\ MappedAt(workspaces, s) # {}
    /\ move_after_resize_state[s] # [tag |-> "WaitingForCommit", target_window_location |-> target]
    /\ move_after_resize_state' =
         [move_after_resize_state EXCEPT ![s] =
             [tag |-> "WaitingForCommit", target_window_location |-> target]]
    /\ lastOp' = "grab"
    /\ UNCHANGED <<alive, role, parent, subLocation, syncMode, cachedBuffer, surfaceData,
                   resize_state, shellVars, windowVars, layerVars,
                   mapCount, commitConfigures, lastSurface, mappedStepRan, otherVars>>

\* An interactive grab takes hold of a window on screen.
GrabWindow(s) ==
    /\ alive[s]
    /\ grabed_window = None
    /\ \E at \in MappedAt(workspaces, s) :
         /\ at.ws = active_workspace
         /\ grabed_window' = Some(workspaces[at.ws][at.i])
    /\ lastOp' = "grab"
    /\ UNCHANGED <<storeVars, shellVars, not_mapped_list, workspaces, active_workspace,
                   layerVars, mapCount, commitConfigures, lastSurface, mappedStepRan,
                   otherVars>>

\* The grab lets go.
ReleaseGrab ==
    /\ grabed_window # None
    /\ grabed_window' = None
    /\ lastOp' = "grab"
    /\ UNCHANGED <<storeVars, shellVars, not_mapped_list, workspaces, active_workspace,
                   layerVars, mapCount, commitConfigures, lastSurface, mappedStepRan,
                   otherVars>>

ResizeBuffers == {NewBuffer(Sz(200, 150)), NewBuffer(Sz(150, 100))}
GrabBuffers == {NewBuffer(Sz(2, 2))}
Toplevels == {s \in Surfaces : role[s] \in {"xdg_toplevel", "x11"}}
\* The surfaces that commit in the grab model: the window's, and one without a role.
GrabCommitters == Toplevels \cup {s \in Surfaces : s = NumSurfaces /\ role[s] = "none"}

\* The resize model has one window, mapped, moved, resized from any edges and
\* hidden by a switch of workspace, and a surface without a role.
NextResize ==
    \/ \E s \in Surfaces : Toplevels = {} /\ NewToplevel(s, "Xdg")
    \/ \E s \in Surfaces : XdgAckConfigure(s)
    \/ \E s \in GrabCommitters, b \in ResizeBuffers : SurfaceCommit(s, b)
    \/ \E ws \in WorkspaceIds : SwitchWorkspace(ws)
    \/ \E s \in Surfaces, edges \in ResizeEdgeSets : ResizeRequest(s, edges)
    \/ \E s \in Surfaces : ResizeGrabEnded(s)
    \/ \E s \in Surfaces : ResizeAckConfigure(s)
    \/ \E s \in Surfaces, target \in MoveTargets : ScheduleMove(s, target)

SpecResize == Init /\ [][NextResize]_vars

\* The grab model has one window, grabbed and let go, and a surface without a role.
NextGrab ==
    \/ \E s \in Surfaces : Toplevels = {} /\ NewToplevel(s, "Xdg")
    \/ \E s \in Surfaces : XdgAckConfigure(s)
    \/ \E s \in GrabCommitters, b \in GrabBuffers : SurfaceCommit(s, b)
    \/ \E ws \in WorkspaceIds : SwitchWorkspace(ws)
    \/ \E s \in Surfaces, target \in MoveTargets : ScheduleMove(s, target)
    \/ \E s \in Surfaces : GrabWindow(s)
    \/ ReleaseGrab

SpecGrab == Init /\ [][NextGrab]_vars

\* ------------------------------------------------------ the positioner model
PositionerModes == {"Floating", "Tiling"}

\* Floating::map_toplevel, Tiling::map_toplevel: the window joins the strategy's
\* windows.
StrategyMapToplevel(windows, window, reposition) == MapToplevel(windows, window)

\* Floating::unmap_toplevel, Tiling::unmap_toplevel: the strategy's windows without
\* the window of the toplevel, and that window if there was one.
StrategyUnmapToplevel(windows, s) ==
    LET i == FindWindow(windows, s)
    IN  IF i = 0 THEN [windows |-> windows, window |-> None]
        ELSE [windows |-> RemoveAt(windows, i), window |-> Some(windows[i])]

\* Mutant: both strategies are handed the window.
UniversalMapToplevelBoth(u, window, reposition) ==
    [u EXCEPT !.floating = StrategyMapToplevel(@, window, reposition),
              !.tiling = StrategyMapToplevel(@, window, reposition)]

\* Universal::map_toplevel
UniversalMapToplevel(u, window, reposition) ==
    CASE u.mode = "Floating" ->
            [u EXCEPT !.floating = StrategyMapToplevel(@, window, reposition)]
      [] u.mode = "Tiling" ->
            [u EXCEPT !.tiling = StrategyMapToplevel(@, window, reposition)]

\* Universal::unmap_toplevel: the floating strategy is asked first, the tiling
\* strategy if it held no such window.
UniversalUnmapToplevel(u, s) ==
    LET f == StrategyUnmapToplevel(u.floating, s)
        g == StrategyUnmapToplevel(u.tiling, s)
    IN  IF IsSome(f.window) THEN [u EXCEPT !.floating = f.windows]
        ELSE IF IsSome(g.window) THEN [u EXCEPT !.tiling = g.windows]
        ELSE u

Universal == [floating |-> floating, tiling |-> tiling, mode |-> mode]

\* One call of the dispatcher on a strategy, and whether the strategy returned
\* something (Some(_)) for it.
Call(strategy, op, answered) == [strategy |-> strategy, op |-> op, answered |-> answered]

\* Lines 34-39: the one strategy map_toplevel calls.
MapCalls(u) ==
    <<Call(IF u.mode = "Floating" THEN "floating" ELSE "tiling", "map_toplevel", FALSE)>>

\* Mutant: the tiling strategy is asked as well when the floating one has answered.
FirstOfCallsAsksBoth(op, f, g) == <<Call("floating", op, f), Call("tiling", op, g)>>

\* Lines 41-65, unmap_toplevel and move_request: the floating strategy is called,
\* the tiling strategy only when the floating one has returned None.
FirstOfCalls(op, f, g) ==
    IF f THEN <<Call("floating", op, f)>>
    ELSE <<Call("floating", op, f), Call("tiling", op, g)>>

\* Lines 67-132, the operations handed to both strategies, floating first.
BothCalls(op) == <<Call("floating", op, FALSE), Call("tiling", op, FALSE)>>
Held(u, s) == FindWindow(u.floating, s) # 0 \/ FindWindow(u.tiling, s) # 0

\* A window not yet held by the positioner is mapped through the dispatcher.
MapWindow(s, kind, reposition) ==
    /\ ~Held(Universal, s)
    /\ \E u \in {UniversalMapToplevel(Universal, NewWindow(s, kind), reposition)} :
         /\ floating' = u.floating
         /\ tiling' = u.tiling
         /\ mode' = u.mode
    /\ strategy_calls' = MapCalls(Universal)
    /\ lastOp' = "map_toplevel"
    /\ UNCHANGED <<storeVars, shellVars, windowVars, layerVars, mapCount, commitConfigures,
                   lastSurface, mappedStepRan, timerVars, pending_size, spaceVars>>

\* A window held by the positioner is unmapped through the dispatcher.
UnmapWindow(s) ==
    /\ Held(Universal, s)
    /\ \E u \in {UniversalUnmapToplevel(Universal, s)} :
         /\ floating' = u.floating
         /\ tiling' = u.tiling
         /\ mode' = u.mode
    /\ strategy_calls' = FirstOfCalls("unmap_toplevel",
                                      IsSome(StrategyUnmapToplevel(floating, s).window),
                                      IsSome(StrategyUnmapToplevel(tiling, s).window))
    /\ lastOp' = "unmap_toplevel"
    /\ UNCHANGED <<storeVars, shellVars, windowVars, layerVars, mapCount, commitConfigures,
                   lastSurface, mappedStepRan, timerVars, pending_size, spaceVars>>

\* The dispatchers map_toplevel is applied to: either mode, and either strategy
\* already holding a window or none.
StrategyStarts == {<<>>, <<NewWindow(1, "X11")>>}
InitUniversal ==
    /\ InitStore
    /\ InitShell
    /\ InitWindows
    /\ InitLayers
    /\ InitHistory
    /\ InitTimers
    /\ InitSpace
    /\ mode \in PositionerModes
    /\ floating \in StrategyStarts
    /\ tiling \in StrategyStarts
    /\ floating = <<>> \/ tiling = <<>>
    /\ strategy_calls = <<>>

NextUniversal ==
    \/ \E s \in Surfaces, kind \in ToplevelKinds, reposition \in BOOLEAN :
            MapWindow(s, kind, reposition)
    \/ \E s \in Surfaces : UnmapWindow(s)

SpecUniversal == InitUniversal /\ [][NextUniversal]_vars

\* ------------------------------------------------------ the dispatch model
\* Floating::move_request, Tiling::move_request: the strategy answers with a grab
\* for a window it holds.
StrategyMoveRequest(windows, s) == FindWindow(windows, s) # 0

\* Universal::move_request for the toplevel of surface s.
MoveRequest(s) ==
    /\ strategy_calls' = FirstOfCalls("move_request", StrategyMoveRequest(floating, s),
                                      StrategyMoveRequest(tiling, s))
    /\ lastOp' = "move_request"
    /\ UNCHANGED <<storeVars, shellVars, windowVars, layerVars, mapCount, commitConfigures,
                   lastSurface, mappedStepRan, positionerVars, timerVars, pending_size,
                   spaceVars>>

\* The operations of Universal that return nothing and are not map_toplevel.
BroadcastOps == {"resize_request", "maximize_request", "unmaximize_request",
                 "on_pointer_move", "on_pointer_button", "set_geometry", "send_frames",
                 "update"}

\* Universal::resize_request, maximize_request, unmaximize_request, on_pointer_move,
\* on_pointer_button, set_geometry, send_frames, update.
Broadcast(op) ==
    /\ strategy_calls' = BothCalls(op)
    /\ lastOp' = op
    /\ UNCHANGED <<storeVars, shellVars, windowVars, layerVars, mapCount, commitConfigures,
                   lastSurface, mappedStepRan, positionerVars, timerVars, pending_size,
                   spaceVars>>

NextDispatch ==
    \/ \E s \in Surfaces, kind \in ToplevelKinds, reposition \in BOOLEAN :
            MapWindow(s, kind, reposition)
    \/ \E s \in Surfaces : UnmapWindow(s)
    \/ \E s \in Surfaces : MoveRequest(s)
    \/ \E op \in BroadcastOps : Broadcast(op)

SpecDispatch == InitUniversal /\ [][NextDispatch]_vars

\* ------------------------------------------------------ the timer model
\* What a callback may return: a boolean, or something that is no boolean.
CallbackResults == {"true", "false", "unit"}

\* Dynamic::as_bool: the boolean, or an error for a value of another type.
AsBool(result) ==
    CASE result = "true" -> Some(TRUE)
      [] result = "false" -> Some(FALSE)
      [] OTHER -> None

\* Mutant: any boolean result asks for another round.
RequeuesOnAnyBool(result) == IsSome(AsBool(result))

\* Lines 28-33: the result is a boolean, and it is true.
Requeues(result) == IsSome(AsBool(result)) /\ Unwrap(AsBool(result))

\* At most this many Timeout events come from outside, and a callback is executed
\* at most this many times.
MaxSubmitted == 2
MaxExecuted == 3

Total(counts) ==
    LET RECURSIVE Sum(_)
        Sum(todo) == IF todo = {} THEN 0
                     ELSE LET k == CHOOSE x \in todo : TRUE
                          IN  counts[k] + Sum(todo \ {k})
    IN  Sum(DOMAIN counts)

\* The configuration script submits Timeout(callback, millis).
SubmitTimeout(k) ==
    /\ Total(submitted) < MaxSubmitted
    /\ config_events' = Append(config_events, k)
    /\ submitted' = [submitted EXCEPT ![k.callback] = @ + 1]
    /\ UNCHANGED <<storeVars, shellVars, windowVars, layerVars, historyVars, positionerVars,
                   timers, executed, stopped, pending_size, strategy_calls, spaceVars>>

\* process_config_event(ConfigEvent::Timeout(callback, millis)), lines 20-41: a
\* timer source is made for the event and its one timeout armed.
ProcessTimeout ==
    /\ config_events # <<>>
    /\ timers' = [timers EXCEPT ![Head(config_events)] = @ + 1]
    /\ config_events' = Tail(config_events)
    /\ UNCHANGED <<storeVars, shellVars, windowVars, layerVars, historyVars, positionerVars,
                   submitted, executed, stopped, pending_size, strategy_calls, spaceVars>>

\* Lines 26-39: the timeout fires, the callback is executed and returns result.
TimerFires(k, result) ==
    /\ timers[k] > 0
    /\ executed[k.callback] < MaxExecuted
    /\ timers' = [timers EXCEPT ![k] = @ - 1]
    /\ executed' = [executed EXCEPT ![k.callback] = @ + 1]
    /\ config_events' = IF Requeues(result) THEN Append(config_events, k) ELSE config_events
    /\ stopped' = [stopped EXCEPT ![k.callback] = IF result = "true" THEN @ ELSE @ + 1]
    /\ UNCHANGED <<storeVars, shellVars, windowVars, layerVars, historyVars, positionerVars,
                   submitted, pending_size, strategy_calls, spaceVars>>

NextTimer ==
    \/ \E k \in TimerKeys : SubmitTimeout(k)
    \/ ProcessTimeout
    \/ \E k \in TimerKeys, result \in CallbackResults : TimerFires(k, result)

SpecTimer == Init /\ [][NextTimer]_vars

\* ------------------------------------------------------ the placement model
\* The states of the layer surfaces of the placement model. The first layer surface
\* requests any of four sizes with any anchor set; the ones after it request a
\* size and are anchored to no edge or to the bottom right corner.
PlacedSizes == {Sz(0, 0), Sz(2, 0), Sz(0, 2), Sz(2, 2)}
PlacedState(z, a) == [size |-> z, anchor |-> a, exclusive_zone |-> None, layer |-> "Top"]
PlacedStates ==
    IF Cardinality(LayerSurfaces) >= MaxZoned THEN {}
    ELSE IF LayerSurfaces = {}
    THEN {PlacedState(z, a) : z \in PlacedSizes, a \in SUBSET Edges}
    ELSE {PlacedState(Sz(2, 2), {}), PlacedState(Sz(2, 2), {"RIGHT", "BOTTOM"})}

NextPlacement ==
    \/ \E s \in Surfaces : \E st \in PlacedStates : NewLayerSurface(s, st.layer, st)
    \/ \E s \in LayerSurfaces : SurfaceCommit(s, NoBuffer)
    \/ \E rect \in OutputRects : OutputChanged(rect)

SpecPlacement == Init /\ [][NextPlacement]_vars

\* ------------------------------------------------------ the output model
\* config.output_layout(): the outputs the configuration names, in layout order,
\* each with the mode it is to have.
OutputLayout == <<[name |-> "eDP-1", mode |-> Sz(4, 4)], [name |-> "HDMI-A-1", mode |-> Sz(6, 4)]>>
LayoutNames == {OutputLayout[i].name : i \in 1..Len(OutputLayout)}

\* The connectors the backend may announce, and the modes it may announce.
OutputNames == LayoutNames \cup {"DP-1", "DP-2"}
OutputModes == {Sz(4, 4), Sz(6, 4)}

\* layout.find_output(name)
FindOutput(name) ==
    LET hits == SelectSeq(OutputLayout, LAMBDA c: c.name = name)
    IN  IF hits = <<>> THEN None ELSE Some(Head(hits))

SpaceNames(outputs) == {outputs[i].name : i \in 1..Len(outputs)}

\* Lines 50-73: the order the outputs are given their places in, each with the
\* width x is advanced by: first the outputs the layout names, in layout order and
\* by the layout's mode, then the others from the last to the first, by their
\* current mode.
PlacingOrder(outputs) ==
    LET named == SelectSeq(OutputLayout, LAMBDA c: c.name \in SpaceNames(outputs))
        others == Reverse(SelectSeq(outputs, LAMBDA o: o.name \notin LayoutNames))
    IN  [i \in 1..Len(named) |-> [name |-> named[i].name, advance |-> named[i].mode.w]]
        \o [i \in 1..Len(others) |-> [name |-> others[i].name, advance |-> others[i].mode.w]]

\* The value of x when the i-th output of the order is placed.
RECURSIVE PlaceX(_, _)
PlaceX(order, i) == IF i = 1 THEN 0 ELSE PlaceX(order, i - 1) + order[i - 1].advance

\* space.map_output and change_current_state(location) for every output of the
\* order: an output keeps its rank in the space and takes its new location.
MapOutputs(outputs) ==
    LET order == PlacingOrder(outputs)
        Rank(name) == CHOOSE i \in 1..Len(order) : order[i].name = name
    IN  [k \in 1..Len(outputs) |->
            [outputs[k] EXCEPT !.loc = Pt(PlaceX(order, Rank(outputs[k].name)), 0)]]

\* OutputHandler::output_created for a connector that is not in the space.
OutputCreated(name, prefered_mode) ==
    /\ ~panicked
    /\ name \notin SpaceNames(space_outputs)
    /\ \E current \in {IF IsSome(FindOutput(name)) THEN Unwrap(FindOutput(name)).mode
                       ELSE prefered_mode} :
         space_outputs' =
            MapOutputs(Append(space_outputs, [name |-> name, loc |-> Origin, mode |-> current]))
    /\ lastOp' = "output_created"
    /\ UNCHANGED <<storeVars, shellVars, windowVars, layerVars, mapCount, commitConfigures,
                   lastSurface, mappedStepRan, positionerVars, timerVars, pending_size,
                   strategy_calls, space_windows, pointer_location, keyboard_focus, panicked>>

\* OutputHandler::output_mode_updated: the output with the id takes the mode.
OutputModeUpdated(name, new_mode) ==
    /\ ~panicked
    /\ space_outputs' =
         [k \in 1..Len(space_outputs) |->
             IF space_outputs[k].name = name
             THEN [space_outputs[k] EXCEPT !.mode = new_mode]
             ELSE space_outputs[k]]
    /\ lastOp' = "output_mode_updated"
    /\ UNCHANGED <<storeVars, shellVars, windowVars, layerVars, mapCount, commitConfigures,
                   lastSurface, mappedStepRan, positionerVars, timerVars, pending_size,
                   strategy_calls, space_windows, pointer_location, keyboard_focus, panicked>>

NextOutput ==
    \/ \E name \in OutputNames, m \in OutputModes : OutputCreated(name, m)
    \/ \E name \in OutputNames, m \in OutputModes : OutputModeUpdated(name, m)

SpecOutput == Init /\ [][NextOutput]_vars

\* ------------------------------------------------------ the input model
\* The place a window of the space has: the windows lie side by side.
WindowPlace(s) == RectOf(Pt(2 * (s - 1), 0), Sz(2, 2))

\* A window is mapped in the space, on top of the windows there are.
MapSpaceWindow(s) ==
    /\ ~panicked
    /\ s = Len(space_windows) + 1
    /\ space_windows' = <<[surface |-> s, geometry |-> WindowPlace(s)]>> \o space_windows
    /\ lastOp' = "map_window"
    /\ UNCHANGED <<storeVars, shellVars, windowVars, layerVars, mapCount, commitConfigures,
                   lastSurface, mappedStepRan, positionerVars, timerVars, pending_size,
                   strategy_calls, space_outputs, pointer_location, keyboard_focus, panicked>>

\* space.window_under(position) and win.surface_under: the surface of the topmost
\* window that holds the position.
SurfaceUnder(windows, position) ==
    LET hits == SelectSeq(windows, LAMBDA win: RectContains(win.geometry, position))
    IN  IF hits = <<>> THEN None ELSE Some(Head(hits).surface)

\* Lines 22-32, InputEvent::Keyboard: the key goes to the keyboard.
KeyboardKey ==
    /\ ~panicked
    /\ lastOp' = "key"
    /\ UNCHANGED <<storeVars, shellVars, windowVars, layerVars, mapCount, commitConfigures,
                   lastSurface, mappedStepRan, positionerVars, timerVars, pending_size,
                   strategy_calls, spaceVars>>

\* The places the pointer is moved over.
PointerPlaces == {Pt(px, py) : px \in 0..5, py \in 0..1}

\* Lines 33-52, InputEvent::PointerMotion: the pointer goes to its location plus
\* the delta.
PointerMotion(delta) ==
    /\ ~panicked
    /\ PtAdd(pointer_location, delta) \in PointerPlaces
    /\ pointer_location' = PtAdd(pointer_location, delta)
    /\ lastOp' = "motion"
    /\ UNCHANGED <<storeVars, shellVars, windowVars, layerVars, mapCount, commitConfigures,
                   lastSurface, mappedStepRan, positionerVars, timerVars, pending_size,
                   strategy_calls, space_outputs, space_windows, keyboard_focus, panicked>>

\* event.position_transformed(size): the event's position, in halves of the
\* device's extent, scaled to the size.
PositionTransformed(position, size) ==
    Pt((position.x * size.w) \div 2, (position.y * size.h) \div 2)

\* Lines 53-74, InputEvent::PointerMotionAbsolute: outputs().next().unwrap()
\* panics when the space has no output; else the pointer goes to the event's
\* position scaled to the size of the first output.
PointerMotionAbsolute(position) ==
    /\ ~panicked
    /\ IF space_outputs = <<>>
       THEN /\ panicked' = TRUE
            /\ UNCHANGED pointer_location
       ELSE /\ pointer_location' = PositionTransformed(position, Head(space_outputs).mode)
            /\ UNCHANGED panicked
    /\ lastOp' = "motion_absolute"
    /\ UNCHANGED <<storeVars, shellVars, windowVars, layerVars, mapCount, commitConfigures,
                   lastSurface, mappedStepRan, positionerVars, timerVars, pending_size,
                   strategy_calls, space_outputs, space_windows, keyboard_focus>>

ButtonStates == {"Pressed", "Released"}

\* Line 98: the focus the keyboard has after a button event.
ButtonFocus(state, focus, under) == under

\* Lines 75-99, InputEvent::PointerButton: the button goes to the pointer, and the
\* keyboard focus to the surface under the pointer.
PointerButton(state) ==
    /\ ~panicked
    /\ keyboard_focus' = ButtonFocus(state, keyboard_focus,
                                     SurfaceUnder(space_windows, pointer_location))
    /\ lastOp' = IF state = "Pressed" THEN "button_pressed" ELSE "button_released"
    /\ UNCHANGED <<storeVars, shellVars, windowVars, layerVars, mapCount, commitConfigures,
                   lastSurface, mappedStepRan, positionerVars, timerVars, pending_size,
                   strategy_calls, space_outputs, space_windows, pointer_location, panicked>>

\* The deltas of the relative motions and the positions of the absolute ones.
PointerDeltas == {Pt(2, 0), Pt(-2, 0), Pt(1, 1), Pt(-1, -1)}
AbsolutePositions == {Pt(0, 0), Pt(1, 0)}

\* The input model has one output, or none yet.
NextInput ==
    \/ \E m \in OutputModes : space_outputs = <<>> /\ OutputCreated("DP-1", m)
    \/ \E s \in Surfaces : MapSpaceWindow(s)
    \/ KeyboardKey
    \/ \E delta \in PointerDeltas : PointerMotion(delta)
    \/ \E position \in AbsolutePositions : PointerMotionAbsolute(position)
    \/ \E state \in ButtonStates : PointerButton(state)

SpecInput == Init /\ [][NextInput]_vars

\* ------------------------------------------------------ the dead surface model
\* The layer surfaces of the dead surface model: first a surface in the bottom
\* right corner, then bars on the left, all with an exclusive thickness.
DeadStates ==
    IF Cardinality(LayerSurfaces) >= MaxZoned THEN {}
    ELSE IF LayerSurfaces = {} THEN {ZoneState(Sz(2, 2), {"RIGHT", "BOTTOM"}, Some(25))}
    ELSE {ZoneState(Sz(2, 0), {"LEFT"}, Some(40))}

NextDead ==
    \/ \E s \in Surfaces : \E st \in DeadStates : NewLayerSurface(s, st.layer, st)
    \/ \E s \in LayerSurfaces, b \in StackBuffers : SurfaceCommit(s, b)
    \/ RefreshLayers
    \/ \E s \in LayerSurfaces : SurfaceDestroyed(s)
    \/ \E rect \in OutputRects : OutputChanged(rect)

SpecDead == Init /\ [][NextDead]_vars

\* ------------------------------------------------------ the borrow model
\* The borrow model has one window, pending, then mapped, grabbed and let go, one
\* layer surface, and a surface without a role; each of them commits.
BorrowBuffers == {NoBuffer} \cup GrabBuffers

NextBorrow ==
    \/ \E s \in Surfaces : Toplevels = {} /\ NewToplevel(s, "Xdg")
    \/ \E s \in Surfaces : LayerSurfaces = {} /\ NewLayerSurface(s, TreeState.layer, TreeState)
    \/ \E s \in Surfaces : XdgAckConfigure(s)
    \/ \E s \in Surfaces, b \in BorrowBuffers : SurfaceCommit(s, b)
    \/ \E s \in Surfaces : GrabWindow(s)
    \/ ReleaseGrab

SpecBorrow == Init /\ [][NextBorrow]_vars

\* ------------------------------------------------------ claims: promotion
InRegistry(s) == Occurrences(not_mapped_list, s) > 0
Enters(s) == MappedCount(workspaces', s) > MappedCount(workspaces, s)

\* A step of the commit model that is a commit of surface s: the other steps
\* give a role, acknowledge a configure or switch the workspace.
CommitStepOf(s) ==
    /\ lastSurface' = s
    /\ role' = role /\ configured' = configured /\ active_workspace' = active_workspace

\* The window of surface s as the active workspace holds it after the step.
EnteredWindow(s) ==
    workspaces'[active_workspace][FindWindow(workspaces'[active_workspace], s)]

\* C1: over any sequence of commits a window enters a workspace's mapped set at
\* most once, and only in a commit of its surface, out of the registry, with the
\* geometry that commit recomputed non-zero in width and height and, for a shell
\* toplevel, the configured flag set.
C1_PromotedOnceWhenReady ==
    /\ [](\A s \in Surfaces : mapCount[s] <= 1)
    /\ [][\A s \in Surfaces :
            Enters(s) =>
                /\ mapCount[s] = 0 /\ mapCount'[s] = 1
                /\ lastSurface' = s
                /\ InRegistry(s)
                /\ MappedCount(workspaces', s) = 1
                /\ FindWindow(workspaces'[active_workspace], s) # 0
                /\ EnteredWindow(s).bbox =
                       BoundingBox(s, EnteredWindow(s).location, surfaceData')
                /\ EnteredWindow(s).bbox.w # 0
                /\ EnteredWindow(s).bbox.h # 0
                /\ (role[s] = "xdg_toplevel" => configured[s])]_vars

C1_Witness ==
    \E s \in Surfaces :
        /\ role[s] = "xdg_toplevel"
        /\ mapCount[s] = 1
        /\ MappedCount(workspaces, s) = 1
        /\ lastSurface = s

\* C2: in every reachable state a window is in at most one of the registry and the
\* mapped sets of the workspaces, and in that one once.
C2_RegistryOrMapped ==
    \A s \in Surfaces : Occurrences(not_mapped_list, s) + MappedCount(workspaces, s) <= 1

C2_Witness ==
    \E s, u \in Surfaces :
        /\ MappedCount(workspaces, s) = 1 /\ ~InRegistry(s)
        /\ InRegistry(u) /\ MappedCount(workspaces, u) = 0
        /\ IsSome(surfaceData[u])

\* C3: for a shell toplevel the initial configure has been sent when its window is
\* promoted; a commit on a pending window sends it exactly when the flag
\* initial_configure_sent is false, and the commit handler sends it once at most.
C3_InitialConfigureFirst ==
    /\ [](\A s \in Surfaces :
            /\ commitConfigures[s] <= 1
            /\ (role[s] = "xdg_toplevel" /\ MappedCount(workspaces, s) > 0
                    => initial_configure_sent[s]))
    /\ [][\A s \in Surfaces :
            /\ (commitConfigures'[s] # commitConfigures[s]) =>
                    /\ lastSurface' = s /\ InRegistry(s) /\ role[s] = "xdg_toplevel"
                    /\ ~initial_configure_sent[s]
                    /\ initial_configure_sent'[s]
            /\ (/\ CommitStepOf(s)
                /\ InRegistry(s) /\ role[s] = "xdg_toplevel"
                /\ ~initial_configure_sent[s])
                    => commitConfigures'[s] = commitConfigures[s] + 1
            /\ (Enters(s) /\ role[s] = "xdg_toplevel") => initial_configure_sent'[s]]_vars

C3_Witness ==
    \E s \in Surfaces :
        /\ role[s] = "xdg_toplevel"
        /\ commitConfigures[s] = 1
        /\ mapCount[s] = 1
        /\ lastOp = "commit"

\* ------------------------------------------------ claims: bounding box
\* The place of node n of the tree of root, from the root's: the sub-surface
\* locations on the way down to n, summed.
RECURSIVE OffsetIn(_, _)
OffsetIn(n, root) ==
    IF n = root THEN Origin ELSE PtAdd(OffsetIn(parent[n], root), subLocation[n])

Attached(n) == IsSome(DataSize(surfaceData, n))

\* A node contributes when it and every surface between it and the root have a
\* buffer attached.
RECURSIVE Contributes(_, _)
Contributes(n, root) == Attached(n) /\ (n = root \/ Contributes(parent[n], root))

ContributingRects(root, location) ==
    {RectOf(PtAdd(location, OffsetIn(n, root)), Unwrap(DataSize(surfaceData, n))) :
        n \in {m \in Subtree(root) : Contributes(m, root)}}

SetMin(S) == CHOOSE v \in S : \A u \in S : v <= u
SetMax(S) == CHOOSE v \in S : \A u \in S : v >= u

\* The smallest rectangle that holds every rectangle of a set.
UnionOf(rects) ==
    LET left == SetMin({r.x : r \in rects})
        top == SetMin({r.y : r \in rects})
    IN  [x |-> left, y |-> top,
         w |-> SetMax({r.x + r.w : r \in rects}) - left,
         h |-> SetMax({r.y + r.h : r \in rects}) - top]

ExpectedBox(root, location) ==
    UnionOf({RectOf(location, Sz(0, 0))} \cup ContributingRects(root, location))

Encloses(a, b) ==
    /\ a.x <= b.x /\ a.y <= b.y
    /\ b.x + b.w <= a.x + a.w /\ b.y + b.h <= a.y + a.h

BoxAsClaimed(owner) ==
    /\ owner.bbox = ExpectedBox(owner.surface, owner.location)
    /\ \A r \in ContributingRects(owner.surface, owner.location) : Encloses(owner.bbox, r)

\* The windows a commit of surface s recomputes: the one waiting in the registry
\* and the one the active workspace shows.
RecomputedWindows(s) ==
    {not_mapped_list[i] : i \in {j \in 1..Len(not_mapped_list) : not_mapped_list[j].toplevel = s}}
        \cup {workspaces[active_workspace][i] :
                i \in {j \in 1..Len(workspaces[active_workspace]) :
                          workspaces[active_workspace][j].toplevel = s}}

\* C4: after a bounding-box recompute of a layer surface (a refresh of the map, an
\* insertion) or of a window (a commit of its surface), the box is the union of a
\* zero-size rectangle at the owner's location with the rectangles of the nodes
\* that have a buffer and whose ancestors all have one, each at its accumulated
\* offset; it encloses each of them, and no other node adds to it.
C4_BoundingBoxIsUnion ==
    /\ lastOp = "refresh" =>
          \A i \in 1..Len(layer_map.surfaces) : BoxAsClaimed(layer_map.surfaces[i])
    /\ lastOp = "insert" => BoxAsClaimed(layer_map.surfaces[1])
    /\ lastOp = "commit" =>
          \A win \in RecomputedWindows(lastSurface) :
              BoxAsClaimed([surface |-> win.toplevel, location |-> win.location,
                            bbox |-> win.bbox])

C4_Witness ==
    /\ lastOp = "refresh"
    /\ \E i \in 1..Len(layer_map.surfaces) :
          LET root == layer_map.surfaces[i].surface
          IN  /\ Attached(root)
              /\ \E n \in Subtree(root) : Attached(n) /\ ~Contributes(n, root)

\* ------------------------------------------------ claims: exclusive zones
InMap(s) == \E i \in 1..Len(layer_map.surfaces) : layer_map.surfaces[i].surface = s
Arranged == lastOp \in ArrangedOps

\* C5: a second arrangement pass in a row, with the same output rectangle and the
\* layer surfaces as they were, leaves every stored location and the four
\* accumulators as the first pass left them.
C5_ArrangeIdempotent ==
    [][lastOp' = "arrange_again" =>
          /\ Len(layer_map'.surfaces) = Len(layer_map.surfaces)
          /\ \A i \in 1..Len(layer_map.surfaces) :
                layer_map'.surfaces[i].location = layer_map.surfaces[i].location
          /\ layer_map'.exclusive_zone = layer_map.exclusive_zone]_vars

C5_Witness ==
    /\ lastOp = "arrange_again"
    /\ layer_map.exclusive_zone # DefaultExclusiveZone
    /\ \E i \in 1..Len(layer_map.surfaces) :
          /\ alive[layer_map.surfaces[i].surface]
          /\ layer_map.surfaces[i].location # Origin

\* The two edges perpendicular to an edge.
Perpendicular(e) == IF e \in {"LEFT", "RIGHT"} THEN {"TOP", "BOTTOM"} ELSE {"LEFT", "RIGHT"}

\* The live layer surfaces of the map that reserve room at an edge: those with an
\* exclusive thickness anchored to the edge alone or to it and its perpendiculars.
Reserving(e) ==
    {s \in Surfaces :
        /\ InMap(s) /\ alive[s]
        /\ IsSome(layer_state[s].exclusive_zone)
        /\ layer_state[s].anchor \in {{e}, {e} \cup Perpendicular(e)}}

RECURSIVE ThicknessSum(_)
ThicknessSum(S) ==
    IF S = {} THEN 0
    ELSE LET s == CHOOSE x \in S : TRUE
         IN  Unwrap(layer_state[s].exclusive_zone) + ThicknessSum(S \ {s})

ExpectedZone ==
    [top |-> ThicknessSum(Reserving("TOP")), bottom |-> ThicknessSum(Reserving("BOTTOM")),
     left |-> ThicknessSum(Reserving("LEFT")), right |-> ThicknessSum(Reserving("RIGHT"))]

\* C6: after an arrangement pass each accumulator is the sum of the thicknesses of
\* the live layer surfaces reserving room at its edge, a layer surface reserves at
\* one edge at most, and LEFT alone with thickness 40 on an otherwise empty map
\* gives left = 40 and the others 0.
C6_ExclusiveZoneSums ==
    Arranged =>
        /\ layer_map.exclusive_zone = ExpectedZone
        /\ \A s \in Surfaces : Cardinality({e \in Edges : s \in Reserving(e)}) <= 1
        /\ (/\ Len(layer_map.surfaces) = 1
            /\ alive[layer_map.surfaces[1].surface]
            /\ layer_state[layer_map.surfaces[1].surface].anchor = {"LEFT"}
            /\ layer_state[layer_map.surfaces[1].surface].exclusive_zone = Some(40))
                => layer_map.exclusive_zone = [top |-> 0, bottom |-> 0, left |-> 40, right |-> 0]

C6_Witness ==
    /\ Arranged
    /\ layer_map.exclusive_zone = [top |-> 0, bottom |-> 0, left |-> 65, right |-> 0]
    /\ \E s \in Surfaces :
          /\ InMap(s) /\ alive[s]
          /\ layer_state[s].anchor = {"LEFT", "TOP", "BOTTOM"}
          /\ layer_state[s].exclusive_zone = Some(25)

SomeZones == {DefaultExclusiveZone, [top |-> 7, bottom |-> 0, left |-> 40, right |-> 3]}

\* C7: the accumulators an arrangement pass leaves are those of the layer surfaces
\* alive in the map at that pass, whatever the accumulators held before, and no
\* step but an arrangement pass changes them.
C7_ZonesRecomputed ==
    /\ [](\A z \in SomeZones :
            Arange([layer_map EXCEPT !.exclusive_zone = z], output_geometry).exclusive_zone
                = ExpectedZone)
    /\ [][/\ (lastOp' \in ArrangedOps => layer_map'.exclusive_zone = ExpectedZone')
          /\ (layer_map'.exclusive_zone # layer_map.exclusive_zone
                => lastOp' \in ArrangedOps)]_vars

C7_Witness ==
    /\ Arranged
    /\ \E s \in Surfaces : role[s] = "layer" /\ ~alive[s] /\ InMap(s)
    /\ \E s \in Surfaces : InMap(s) /\ alive[s] /\ layer_state[s].exclusive_zone = Some(40)
    /\ layer_map.exclusive_zone = [top |-> 0, bottom |-> 0, left |-> 40, right |-> 0]

\* ------------------------------------------------------ claims: stacking
\* The entries of a tier of the layer map that match a point in their hit test.
Hits(layer, p) ==
    {i \in 1..Len(layer_map.surfaces) :
        /\ layer_map.surfaces[i].layer = layer
        /\ IsSome(Matching(layer_map.surfaces[i], p, surfaceData))}

\* The entry of a set inserted last: surfaces are named in the order they are
\* inserted.
Newest(entries) ==
    CHOOSE i \in entries :
        \A j \in entries : layer_map.surfaces[j].surface <= layer_map.surfaces[i].surface

\* C8: get_surface_under for a tier returns what the most recently inserted of the
\* tier's layer surfaces matching the point matches, nothing when none matches,
\* and never a surface of a layer surface of another tier.
C8_NewestOfTierFound ==
    \A layer \in Tiers, p \in Points :
        LET under == GetSurfaceUnder(layer_map, layer, p, surfaceData)
            hits == Hits(layer, p)
        IN  /\ hits = {} => under = None
            /\ hits # {} =>
                  under = Matching(layer_map.surfaces[Newest(hits)], p, surfaceData)
            /\ IsSome(under) =>
                  \E i \in 1..Len(layer_map.surfaces) :
                      /\ layer_map.surfaces[i].layer = layer
                      /\ Unwrap(under).surface \in Subtree(layer_map.surfaces[i].surface)

C8_Witness ==
    \E layer \in Tiers, other \in Tiers, p \in Points :
        /\ other # layer
        /\ Cardinality(Hits(layer, p)) >= 2
        /\ Hits(other, p) # {}
        /\ \E i \in Hits(other, p) :
              layer_map.surfaces[i].surface > layer_map.surfaces[Newest(Hits(layer, p))].surface

\* C9: with_layers_from_bottom_to_top for a tier hands over each layer surface of
\* the tier once and none of another tier, the oldest inserted first, which is the
\* order get_surface_under scans reversed; after insertions into the tiers bottom,
\* top and bottom it hands over the first and then the third.
C9_BottomToTopOnce ==
    \A layer \in Tiers :
        LET visited == WithLayersFromBottomToTop(layer_map, layer)
            Position(l) == CHOOSE i \in 1..Len(layer_map.surfaces) : layer_map.surfaces[i] = l
        IN  /\ \A i \in 1..Len(layer_map.surfaces) :
                  Cardinality({k \in 1..Len(visited) : visited[k] = layer_map.surfaces[i]})
                      = IF layer_map.surfaces[i].layer = layer THEN 1 ELSE 0
            /\ \A k \in 1..Len(visited) :
                  \E i \in 1..Len(layer_map.surfaces) : visited[k] = layer_map.surfaces[i]
            /\ \A k, m \in 1..Len(visited) :
                  k < m => /\ visited[k].surface < visited[m].surface
                           /\ Position(visited[k]) > Position(visited[m])
            /\ (/\ Len(layer_map.surfaces) = 3
                /\ layer = "Bottom"
                /\ \A i \in 1..3 :
                      layer_map.surfaces[i].layer =
                          IF layer_map.surfaces[i].surface = 2 THEN "Top" ELSE "Bottom")
                  => [k \in 1..Len(visited) |-> visited[k].surface] = <<1, 3>>

C9_Witness ==
    /\ Len(layer_map.surfaces) = 3
    /\ \A i \in 1..3 :
          layer_map.surfaces[i].layer =
              IF layer_map.surfaces[i].surface = 2 THEN "Top" ELSE "Bottom"
    /\ Len(WithLayersFromBottomToTop(layer_map, "Bottom")) = 2
    /\ lastOp = "refresh"

\* ------------------------------------------------------- claims: refresh
\* The place of the entry of surface s in a collection of layer surfaces.
PlaceIn(surfs, s) == CHOOSE i \in 1..Len(surfs) : surfs[i].surface = s

\* C10: a refresh removes from the layer map the layer surfaces whose surface is
\* dead and no other, keeps the live ones in the order they had, each with its
\* bounding box recomputed and its location as it was, and leaves the accumulators
\* as they were.
C10_RefreshPrunesDead ==
    [][lastOp' = "refresh" =>
          LET old == layer_map.surfaces
              new == layer_map'.surfaces
              Kept(i) == \E k \in 1..Len(new) : new[k].surface = old[i].surface
          IN  /\ \A i \in 1..Len(old) : Kept(i) <=> alive[old[i].surface]
              /\ Len(new) = Cardinality({i \in 1..Len(old) : alive[old[i].surface]})
              /\ \A k \in 1..Len(new) :
                    /\ \E i \in 1..Len(old) : old[i].surface = new[k].surface
                    /\ new[k].location = old[PlaceIn(old, new[k].surface)].location
                    /\ new[k].bbox = ExpectedBox(new[k].surface, new[k].location)
              /\ \A k, m \in 1..Len(new) :
                    k < m => PlaceIn(old, new[k].surface) < PlaceIn(old, new[m].surface)
              /\ layer_map'.exclusive_zone = layer_map.exclusive_zone]_vars

C10_Witness ==
    /\ lastOp = "refresh"
    /\ \E s \in Surfaces : role[s] = "layer" /\ ~alive[s] /\ ~InMap(s)
    /\ \E i \in 1..Len(layer_map.surfaces) :
          /\ layer_map.surfaces[i].location # Origin
          /\ layer_map.surfaces[i].bbox =
                RectOf(layer_map.surfaces[i].location, Sz(0, 0))
    /\ layer_map.exclusive_zone # DefaultExclusiveZone


\* ------------------------------------------------------ claims: resize and move
\* A step that is a commit of surface s in the resize and grab models.
CommitOf(s) == CommitStepOf(s) /\ lastOp' # "grab"

WindowAt(wss, at) == wss[at.ws][at.i]
Visible(at) == \E k \in 1..Len(VisibleWorkspaces) : VisibleWorkspaces[k] = at.ws

\* The size of the surface's buffer once the commit is processed.
CurrentSize(s) == Unwrap(DataSize(surfaceData', s))

\* The location the resize rule gives the window of s: the opposite edge stays.
Compensated(s, win) ==
    LET rs == resize_state[s]
        initial == rs.initial_window_location
        size == rs.initial_window_size
        resizing == rs.tag \in {"Resizing", "WaitingForFinalAck", "WaitingForCommit"}
    IN  Pt(IF resizing /\ "LEFT" \in rs.edges
           THEN initial.x + (size.w - CurrentSize(s).w) ELSE win.location.x,
           IF resizing /\ "TOP" \in rs.edges
           THEN initial.y + (size.h - CurrentSize(s).h) ELSE win.location.y)

ResizeResolves(s, at) ==
    (/\ CommitOf(s)
     /\ move_after_resize_state[s].tag # "WaitingForCommit"
     /\ IsSome(DataSize(surfaceData', s)))
        => WindowAt(workspaces', at).location = Compensated(s, WindowAt(workspaces, at))

\* C11 as stated: a commit of any mapped window's surface with no move pending
\* leaves the window where the resize rule puts it.
C11_AnyMappedWindow ==
    [][\A s \in Surfaces : \A at \in MappedAt(workspaces, s) : ResizeResolves(s, at)]_vars

\* C11: a commit of the surface of a window mapped in a visible workspace, with no
\* move pending, leaves the window at x = initial.x + (initial.w - current.w) when
\* LEFT is among the resize edges and y = initial.y + (initial.h - current.h) when
\* TOP is, and leaves the other coordinates, and the location of a window not being
\* resized, unchanged.
C11_ResizeCompensation ==
    [][\A s \in Surfaces : \A at \in MappedAt(workspaces, s) :
            Visible(at) => ResizeResolves(s, at)]_vars

\* The window at (100,100) of size (200,150), resized from the top left to
\* (150,100), is at (150,150) after its commit.
C11_Witness ==
    \E s \in Surfaces : \E at \in MappedAt(workspaces, s) :
        /\ lastOp = "commit" /\ lastSurface = s /\ mappedStepRan
        /\ resize_state[s].tag = "Resizing"
        /\ resize_state[s].edges = {"TOP", "LEFT"}
        /\ resize_state[s].initial_window_location = Pt(100, 100)
        /\ resize_state[s].initial_window_size = Sz(200, 150)
        /\ move_after_resize_state[s].tag # "WaitingForCommit"
        /\ WindowAt(workspaces, at).location = Pt(150, 150)
        /\ WindowAt(workspaces, at).bbox = RectOf(Pt(150, 150), Sz(150, 100))

\* The resize state a commit of s leaves when the commit ends a resize that was
\* waiting for it, and leaves alone otherwise.
Finishes(s, ends) ==
    CommitOf(s) =>
        /\ resize_state'[s] = IF ends THEN NotResizing ELSE resize_state[s]
        /\ \A t \in Surfaces \ {s} : resize_state'[t] = resize_state[t]

\* C12 as stated: the commit of a surface whose window is mapped in any workspace
\* ends a resize in WaitingForCommit, and a commit changes no resize state otherwise.
C12_AnyWorkspace ==
    [][\A s \in Surfaces :
          Finishes(s, resize_state[s].tag = "WaitingForCommit"
                      /\ MappedAt(workspaces, s) # {})]_vars

\* C12: the commit of a surface whose window is mapped in a visible workspace, in
\* resize state WaitingForCommit, leaves the resize state NotResizing; a commit
\* changes no resize state in any other way.
C12_FinishOnCommit ==
    [][\A s \in Surfaces :
          Finishes(s, resize_state[s].tag = "WaitingForCommit"
                      /\ \E at \in MappedAt(workspaces, s) : Visible(at))]_vars

\* A commit has ended a resize that moved the window.
C12_Witness ==
    \E s \in Surfaces : \E at \in MappedAt(workspaces, s) :
        /\ lastOp = "commit" /\ lastSurface = s /\ mappedStepRan
        /\ resize_state[s] = NotResizing
        /\ move_after_resize_state[s].tag = "None"
        /\ WindowAt(workspaces, at).location = Pt(50, 0)

WaitingFor(target) == [tag |-> "WaitingForCommit", target_window_location |-> target]
Current(target) == [tag |-> "Current", target_window_location |-> target]

\* The commit of s, its move waiting for the commit, puts the window at the target
\* and latches the move.
MoveResolves(s, at) ==
    \A target \in MoveTargets :
        (CommitOf(s) /\ move_after_resize_state[s] = WaitingFor(target))
            => /\ WindowAt(workspaces', at).location = target
               /\ move_after_resize_state'[s] = Current(target)

\* C13 as stated: the commit of any mapped window's surface with a move waiting
\* puts the window at the target and makes the state Current(target).
C13_AnyMappedWindow ==
    [][\A s \in Surfaces : \A at \in MappedAt(workspaces, s) : MoveResolves(s, at)]_vars

\* C13: the commit of the surface of a window mapped in a visible workspace, with
\* the move WaitingForCommit(target), puts the window at target whatever the resize
\* edges resolve to and makes the state Current(target); no step makes a surface's
\* state Current but a commit of that surface, and a commit in state absent or
\* Current leaves the state as it is.
C13_MoveLatched ==
    [][\A s \in Surfaces :
          /\ \A at \in MappedAt(workspaces, s) : Visible(at) => MoveResolves(s, at)
          /\ (move_after_resize_state'[s].tag = "Current"
                 /\ move_after_resize_state[s].tag # "Current") => CommitOf(s)
          /\ (CommitOf(s) /\ move_after_resize_state[s].tag # "WaitingForCommit")
                 => move_after_resize_state' = move_after_resize_state]_vars

\* The commit put the window at the target although its resize from the left had
\* resolved to another place.
C13_Witness ==
    \E s \in Surfaces : \E at \in MappedAt(workspaces, s) :
        /\ lastOp = "commit" /\ lastSurface = s /\ mappedStepRan
        /\ move_after_resize_state[s] = Current(Pt(100, 100))
        /\ resize_state[s].tag = "Resizing"
        /\ "LEFT" \in resize_state[s].edges
        /\ resize_state[s].initial_window_size = Sz(200, 150)
        /\ WindowAt(workspaces, at).bbox = RectOf(Pt(100, 100), Sz(150, 100))

\* ------------------------------------------------------ claims: positioner
Selected(u) == IF u.mode = "Floating" THEN u.floating ELSE u.tiling
Unselected(u) == IF u.mode = "Floating" THEN u.tiling ELSE u.floating
UniversalAfter == [floating |-> floating', tiling |-> tiling', mode |-> mode']

\* C14: a map_toplevel through the dispatcher adds the window to the windows of
\* the strategy its mode selects, and to no other: the windows of the other
\* strategy are what they were.
C14_MapBySelected ==
    [][lastOp' = "map_toplevel" =>
          /\ Unselected(UniversalAfter) = Unselected(Universal)
          /\ \E s \in Surfaces :
                /\ Occurrences(Selected(Universal), s) = 0
                /\ \A t \in Surfaces :
                      Occurrences(Selected(UniversalAfter), t) =
                          Occurrences(Selected(Universal), t) + (IF t = s THEN 1 ELSE 0)]_vars

\* In mode Tiling two windows were mapped while the floating strategy held one.
C14_Witness ==
    /\ lastOp = "map_toplevel"
    /\ mode = "Tiling"
    /\ Len(tiling) = 2
    /\ floating = <<NewWindow(1, "X11")>>

\* ------------------------------------------------------ claims: timeouts
\* The Timeout events waiting and the timers armed for a callback.
Waiting(events, cb) == Cardinality({i \in 1..Len(events) : events[i].callback = cb})
Armed(armed, cb) == Total([k \in {x \in TimerKeys : x.callback = cb} |-> armed[k]])

\* An event is processed: one timer more for its callback and delay.
ArmsOne ==
    (config_events # <<>> /\ config_events' = Tail(config_events))
        => timers' = [timers EXCEPT ![Head(config_events)] = @ + 1]

\* A callback is executed: once, by one armed timer that is used up, and the event
\* comes back, the same callback and delay, exactly when the execution is not
\* counted among those that did not return true.
FiresOnce ==
    executed' # executed =>
        \E k \in TimerKeys :
            /\ timers[k] > 0
            /\ timers' = [timers EXCEPT ![k] = @ - 1]
            /\ executed' = [executed EXCEPT ![k.callback] = @ + 1]
            /\ \/ config_events' = Append(config_events, k) /\ stopped' = stopped
               \/ /\ config_events' = config_events
                  /\ stopped' = [stopped EXCEPT ![k.callback] = @ + 1]

\* What can still execute a callback is what came from outside less the
\* executions that returned false or no boolean.
RoundsLeft ==
    \A cb \in Callbacks :
        Waiting(config_events, cb) + Armed(timers, cb) = submitted[cb] - stopped[cb]

\* C15: processing a Timeout event arms one timer; a firing timer executes its
\* callback once and the Timeout event is enqueued again, same callback and delay,
\* if and only if the callback returned true; after false or a non-boolean the
\* callback has no event or timer left unless one was submitted from outside.
C15_TimeoutRounds == []RoundsLeft /\ [][ArmsOne /\ FiresOnce]_vars

\* A callback submitted once ran twice: it returned true, then not, and nothing
\* is left to run it again.
C15_Witness ==
    \E cb \in Callbacks :
        /\ submitted[cb] = 1 /\ executed[cb] = 2 /\ stopped[cb] = 1
        /\ Waiting(config_events, cb) = 0 /\ Armed(timers, cb) = 0

\* ------------------------------------------------------ claims: hit test
\* The nodes of a tree in descent order: a parent before its children, the
\* children in the order the downward walk takes them.
RECURSIVE DescentOrder(_)
RECURSIVE DescentOrderOf(_)
DescentOrder(s) == <<s>> \o DescentOrderOf(ChildrenDown(s))
DescentOrderOf(cs) ==
    IF cs = <<>> THEN <<>> ELSE DescentOrder(Head(cs)) \o DescentOrderOf(Tail(cs))

\* The first node in descent order whose buffer holds the point, with its
\* accumulated location.
FirstContaining(l, point, data) ==
    LET order == DescentOrder(l.surface)
        At(n) == PtAdd(l.location, OffsetIn(n, l.surface))
        hits == {i \in 1..Len(order) : ContainsPoint(data, order[i], PtSub(point, At(order[i])))}
        first == CHOOSE i \in hits : \A j \in hits : i <= j
    IN  IF hits = {} THEN None
        ELSE Some([surface |-> order[first], location |-> At(order[first])])

\* C16: the walk of the hit test of a layer surface returns the first surface in
\* descent order whose buffer holds the point, with its accumulated location, and
\* nothing when no node holds the point.
C16_FirstInDescent ==
    \A i \in 1..Len(layer_map.surfaces) : \A point \in Points :
        (alive[layer_map.surfaces[i].surface] /\ RectContains(layer_map.surfaces[i].bbox, point))
            => Matching(layer_map.surfaces[i], point, surfaceData)
                   = FirstContaining(layer_map.surfaces[i], point, surfaceData)

\* ------------------------------------------------------ claims: steps of a commit
\* C17 as stated: a commit whose surface the pending-window step finds in the
\* registry does not run the mapped-window step.
C17_AtMostOneStep ==
    [][\A s \in Surfaces : (CommitOf(s) /\ InRegistry(s)) => ~mappedStepRan']_vars

\* C17: the pending-window step and the mapped-window step run one after the
\* other: the commit that promotes a window also runs the mapped-window step on
\* it, a commit that leaves the window in the registry runs the pending-window
\* step alone, and so does the mapped-window step run alone for a window that was
\* not in the registry.
C17_PromotionThenMappedStep ==
    [][\A s \in Surfaces :
          CommitOf(s) =>
              /\ Enters(s) => (InRegistry(s) /\ mappedStepRan')
              /\ Occurrences(not_mapped_list', s) > 0 => ~mappedStepRan'
              /\ (mappedStepRan' /\ ~InRegistry(s)) =>
                    \E at \in MappedAt(workspaces, s) : Visible(at)]_vars

\* The commit that promoted the window ran the mapped-window step on it.
C17_Witness ==
    \E s \in Surfaces : \E at \in MappedAt(workspaces, s) :
        /\ lastOp = "commit" /\ lastSurface = s /\ mappedStepRan
        /\ mapCount[s] = 1
        /\ Visible(at)
        /\ WindowAt(workspaces, at).location = Origin
        /\ resize_state[s] = NotResizing
        /\ move_after_resize_state[s] = NoMoveAfterResize

\* ------------------------------------------------------ claims: the grabbed window
Grabbed == Unwrap(grabed_window).toplevel

\* C18: a commit of the grabbed window's surface with the move
\* WaitingForCommit(target) leaves the state Current(target), and the grab step
\* moves nothing: the grabbed window is as it was, and so is its window in a
\* workspace that is not visible; a commit of another surface leaves the grabbed
\* window's move-after-resize state as it was.
C18_GrabLatchesMove ==
    [][\A s \in Surfaces :
          (CommitOf(s) /\ IsSome(grabed_window)) =>
              /\ grabed_window' = grabed_window
              /\ \A target \in MoveTargets :
                    (Grabbed = s /\ move_after_resize_state[s] = WaitingFor(target))
                        => move_after_resize_state'[s] = Current(target)
              /\ \A at \in MappedAt(workspaces, s) :
                    (Grabbed = s /\ ~Visible(at))
                        => WindowAt(workspaces', at) = WindowAt(workspaces, at)
              /\ Grabbed # s =>
                    move_after_resize_state'[Grabbed] = move_after_resize_state[Grabbed]]_vars

\* The commit of the grabbed window's surface latched the move and the window,
\* out of sight, stayed where it was.
C18_Witness ==
    \E s \in Surfaces : \E at \in MappedAt(workspaces, s) :
        /\ IsSome(grabed_window) /\ Grabbed = s
        /\ lastOp = "commit" /\ lastSurface = s /\ ~mappedStepRan
        /\ ~Visible(at)
        /\ move_after_resize_state[s] = Current(Pt(100, 100))
        /\ WindowAt(workspaces, at).location = Origin
        /\ Unwrap(grabed_window).location = Origin

\* ------------------------------------------------------ claims: synchronized commits
\* The surfaces above n, its parent first.
RECURSIVE Ancestors(_)
Ancestors(n) ==
    IF role[n] = "subsurface" THEN {parent[n]} \cup Ancestors(parent[n]) ELSE {}

\* A sub-surface whose commits wait for its parent's: it is in synchronized mode,
\* or a sub-surface above it is.
Synchronized(n) ==
    /\ role[n] = "subsurface"
    /\ \E a \in {n} \cup Ancestors(n) : role[a] = "subsurface" /\ syncMode[a]

\* A step of the sync model that is a commit of surface s.
SyncCommitOf(s) == CommitStepOf(s) /\ lastOp' = "commit"

\* What the walk leaves for a node other than the committed one: a record, with
\* the buffer the node's commits had left waiting.
Refreshed(n) ==
    /\ IsSome(surfaceData'[n])
    /\ Unwrap(surfaceData'[n]) =
          UpdateBuffer(IF IsSome(surfaceData[n]) THEN Unwrap(surfaceData[n])
                       ELSE DefaultSurfaceData, cachedBuffer[n])
    /\ cachedBuffer'[n] = NoBuffer

\* C19: a commit of a synchronized sub-surface creates and updates no surface's
\* record; a commit of any other surface leaves a record for the surface and for
\* every surface its walk reaches, with the waiting buffers taken, and no other
\* record changed; the record of a synchronized sub-surface changes only in a
\* commit of a surface above it that is not synchronized.
C19_SyncDeferred ==
    [][/\ \A s \in Surfaces :
            SyncCommitOf(s) =>
                IF Synchronized(s) THEN surfaceData' = surfaceData
                ELSE /\ IsSome(surfaceData'[s])
                     /\ \A n \in Subtree(s) \ {s} : Refreshed(n)
                     /\ \A n \in Surfaces \ Subtree(s) : surfaceData'[n] = surfaceData[n]
       /\ \A n \in Surfaces :
            (Synchronized(n) /\ surfaceData'[n] # surfaceData[n]) =>
                \E a \in Ancestors(n) : SyncCommitOf(a) /\ ~Synchronized(a)]_vars

\* The buffer a synchronized sub-surface committed reached its record with the
\* commit of its parent.
C19_Witness ==
    \E n \in Surfaces :
        /\ Synchronized(n)
        /\ lastOp = "commit" /\ lastSurface = parent[n]
        /\ DataSize(surfaceData, n) = Some(Sz(2, 2))
        /\ cachedBuffer[n] = NoBuffer

\* ------------------------------------------------------ claims: layer commits
\* A step of the layer commit model that is a commit of surface s.
LayerCommitOf(s) == lastSurface' = s /\ lastOp' \in {"commit"} \cup ArrangedOps

\* The surface is a live layer surface of the output's layer map.
OnOutput(s) == alive[s] /\ InMap(s)

\* The commit of a layer surface on the output sends its initial configure
\* exactly when the flag is false.
SendsWhenUnsent(s) ==
    OnOutput(s) =>
        commitConfigures'[s] =
            commitConfigures[s] + (IF initial_configure_sent[s] THEN 0 ELSE 1)

\* The commit of a surface that is no layer surface of the output arranges nothing.
NoPassOffOutput(s) == ~OnOutput(s) => (lastOp' = "commit" /\ layer_map' = layer_map)

\* C20 as stated: the commit of a layer surface sends the initial configure when
\* the flag is false, and an arrangement pass runs only in a commit of a layer
\* surface in which the configure state of a layer surface changed.
C20_ArrangeOnlyOnChange ==
    [][\A s \in Surfaces :
          LayerCommitOf(s) =>
              /\ SendsWhenUnsent(s)
              /\ NoPassOffOutput(s)
              /\ lastOp' \in ArrangedOps
                    => initial_configure_sent' # initial_configure_sent]_vars

\* C20: the commit of a layer surface on the output sends the initial configure
\* exactly when the flag is false and runs the arrangement pass of the output's
\* layer map, whether a configure state changed or not; the commit of any other
\* surface runs no arrangement pass.
C20_ArrangeOnLayerCommit ==
    [][\A s \in Surfaces :
          LayerCommitOf(s) =>
              /\ SendsWhenUnsent(s)
              /\ NoPassOffOutput(s)
              /\ OnOutput(s) =>
                    /\ lastOp' \in ArrangedOps
                    /\ layer_map' = Arange(layer_map, output_geometry)
                    /\ initial_configure_sent'[s]]_vars

\* The only layer surface committed again, its initial configure long sent, and
\* the arrangement pass ran again.
C20_Witness ==
    \E s \in Surfaces :
        /\ lastOp = "arrange_again" /\ lastSurface = s
        /\ OnOutput(s)
        /\ Len(layer_map.surfaces) = 1
        /\ commitConfigures[s] = 1
        /\ initial_configure_sent[s]

\* ------------------------------------------------------ claims: placement
\* The entries of the layer map whose surface is alive.
LiveEntries == {i \in 1..Len(layer_map.surfaces) : alive[layer_map.surfaces[i].surface]}
Requested(i) == layer_state[layer_map.surfaces[i].surface]

\* Along one axis: at the near edge, at the far edge, in the middle of the output.
Near(from, extent, length) == from
Far(from, extent, length) == from + (extent - length)
Middle(from, extent, length) == from + (extent \div 2) - (length \div 2)

\* The place along one axis by the anchors alone.
ByAnchors(near, far, anchor, from, extent, length) ==
    IF near \in anchor THEN Near(from, extent, length)
    ELSE IF far \in anchor THEN Far(from, extent, length)
    ELSE Middle(from, extent, length)

\* The place along one axis when a length of zero goes to the near edge.
ByLengthThenAnchors(near, far, anchor, from, extent, length) ==
    IF length = 0 THEN Near(from, extent, length)
    ELSE ByAnchors(near, far, anchor, from, extent, length)

\* C21 as stated: after an arrangement pass every live layer surface is stored at
\* the output's left edge if it is anchored LEFT, else at the right edge if it is
\* anchored RIGHT, else centered, whatever width it requests, and the same
\* vertically with TOP, BOTTOM and the height.
C21_PlacedByAnchors ==
    lastOp \in ArrangedOps =>
        \A i \in LiveEntries :
            LET data == Requested(i)
                out == output_geometry
            IN  layer_map.surfaces[i].location =
                    Pt(ByAnchors("LEFT", "RIGHT", data.anchor, out.x, out.w, data.size.w),
                       ByAnchors("TOP", "BOTTOM", data.anchor, out.y, out.h, data.size.h))

\* C21 amended: after an arrangement pass every live layer surface is stored at
\* the output's left edge if it requests no width or is anchored LEFT, else at the
\* right edge if it is anchored RIGHT, else centered, and the same vertically with
\* the height, TOP and BOTTOM.
C21_PlacedByLengthThenAnchors ==
    lastOp \in ArrangedOps =>
        \A i \in LiveEntries :
            LET data == Requested(i)
                out == output_geometry
            IN  layer_map.surfaces[i].location =
                    Pt(ByLengthThenAnchors("LEFT", "RIGHT", data.anchor, out.x, out.w, data.size.w),
                       ByLengthThenAnchors("TOP", "BOTTOM", data.anchor, out.y, out.h, data.size.h))

\* An arrangement pass on the second output has placed a surface that requests no
\* width and is anchored RIGHT at the left edge, and a surface with a width and no
\* horizontal anchor in the middle.
C21_Witness ==
    /\ lastOp \in ArrangedOps
    /\ output_geometry.x # 0
    /\ \E i \in LiveEntries :
         /\ Requested(i).size.w = 0
         /\ Requested(i).anchor \cap {"LEFT", "RIGHT"} = {"RIGHT"}
         /\ layer_map.surfaces[i].location.x = output_geometry.x
    /\ \E i \in LiveEntries :
         /\ Requested(i).size.w # 0
         /\ Requested(i).anchor \cap {"LEFT", "RIGHT"} = {}
         /\ layer_map.surfaces[i].location.x =
                output_geometry.x + (output_geometry.w \div 2) - (Requested(i).size.w \div 2)

\* ------------------------------------------------------ claims: configured size
OutputSize == Sz(output_geometry.w, output_geometry.h)
NoSize(z) == z.w = 0 /\ z.h = 0
OwnSize(z) == z.w # 0 /\ z.h # 0

\* C22: after an arrangement pass a live layer surface that requests no size is
\* asked to take the output's size, and one that requests a size of its own is
\* configured with that size.
C22_OwnSizeKept ==
    lastOp \in ArrangedOps =>
        \A i \in LiveEntries :
            LET s == layer_map.surfaces[i].surface
            IN  /\ NoSize(Requested(i).size) => pending_size[s] = Some(OutputSize)
                /\ OwnSize(Requested(i).size) => pending_size[s] = Some(Requested(i).size)

\* ------------------------------------------------------ claims: dispatch
FirstOfOps == {"unmap_toplevel", "move_request"}
Answered(calls) == {i \in 1..Len(calls) : calls[i].answered}
CalledOn(calls) == [i \in 1..Len(calls) |-> calls[i].strategy]

\* C23: unmap_toplevel and move_request call the floating strategy first and the
\* tiling strategy only when the floating one returned nothing, so that at most
\* one strategy yields the result; every other operation but map_toplevel calls
\* both strategies, floating before tiling, in either mode.
C23_FirstOfOrBoth ==
    /\ lastOp \in FirstOfOps =>
         /\ \A i \in 1..Len(strategy_calls) : strategy_calls[i].op = lastOp
         /\ CalledOn(strategy_calls) =
                IF strategy_calls[1].answered THEN <<"floating">> ELSE <<"floating", "tiling">>
         /\ Cardinality(Answered(strategy_calls)) <= 1
    /\ lastOp \in BroadcastOps =>
         /\ \A i \in 1..Len(strategy_calls) : strategy_calls[i].op = lastOp
         /\ CalledOn(strategy_calls) = <<"floating", "tiling">>

\* A window of the floating strategy was asked to move while the dispatcher is in
\* tiling mode: the floating strategy answered and was the only one called.
C23_Witness ==
    /\ lastOp = "move_request"
    /\ mode = "Tiling"
    /\ floating # <<>>
    /\ strategy_calls = <<Call("floating", "move_request", TRUE)>>

\* ------------------------------------------------------ claims: keyboard focus
\* C24: the input handler changes the keyboard focus on a button press only, to
\* the surface the hit test finds at the pointer's location; key events, pointer
\* motions and button releases leave the focus as it is.
C24_FocusOnPressOnly ==
    [][/\ lastOp' = "button_pressed" =>
            keyboard_focus' = SurfaceUnder(space_windows, pointer_location)
       /\ lastOp' # "button_pressed" => keyboard_focus' = keyboard_focus]_vars

\* ------------------------------------------------------ claims: no output
\* C26: an absolute pointer motion that arrives while the space has no output is
\* dropped: the pointer's location and the focus stay as they are and the handler
\* goes on with the events after it.
C26_NoOutputDropsEvent ==
    [][(lastOp' = "motion_absolute" /\ space_outputs = <<>>) =>
            /\ ~panicked'
            /\ UNCHANGED <<pointer_location, keyboard_focus>>]_vars

\* ------------------------------------------------------ claims: output layout
Outputs == {space_outputs[i] : i \in 1..Len(space_outputs)}
Extent(o) == o.loc.x .. (o.loc.x + o.mode.w - 1)
LayoutRank(o) == CHOOSE i \in 1..Len(OutputLayout) : OutputLayout[i].name = o.name
Named(o) == o.name \in LayoutNames

\* C29: the mapped outputs are at y = 0, no two of them overlap horizontally, the
\* outputs the layout names come first, in layout order from x = 0, and the others
\* after them.
C29_OutputsSideBySide ==
    /\ \A o \in Outputs : o.loc.y = 0
    /\ \A a, b \in Outputs : a # b => Extent(a) \cap Extent(b) = {}
    /\ \A a, b \in Outputs :
         /\ (Named(a) /\ ~Named(b)) => a.loc.x < b.loc.x
         /\ (Named(a) /\ Named(b) /\ LayoutRank(a) < LayoutRank(b)) => a.loc.x < b.loc.x
    /\ Outputs # {} => \E o \in Outputs : o.loc.x = 0

\* ------------------------------------------------------ claims: dead surfaces
\* The entries of the layer map whose surface is dead.
DeadEntries == {i \in 1..Len(layer_map.surfaces) : ~alive[layer_map.surfaces[i].surface]}

\* No hit test and no frame callback reaches the surface of a dead entry, and the
\* accumulators an arrangement pass leaves hold nothing of it.
DeadUnused ==
    /\ \A i \in DeadEntries :
         /\ \A p \in Points : Matching(layer_map.surfaces[i], p, surfaceData) = None
         /\ \A p \in Points, tier \in Tiers :
              LET hit == GetSurfaceUnder(layer_map, tier, p, surfaceData)
              IN  IsSome(hit) => Unwrap(hit).surface # layer_map.surfaces[i].surface
         /\ layer_map.surfaces[i].surface \notin SendFrames(layer_map)
    /\ Arranged => layer_map.exclusive_zone = ExpectedZone

\* A step that is no refresh keeps every dead entry as it is and sends its surface
\* no configure; a refresh leaves no dead entry.
DeadKeptUntilRefresh ==
    IF lastOp' = "refresh"
    THEN \A k \in 1..Len(layer_map'.surfaces) : alive[layer_map'.surfaces[k].surface]
    ELSE \A i \in DeadEntries :
            LET s == layer_map.surfaces[i].surface
            IN  /\ \E k \in 1..Len(layer_map'.surfaces) :
                      layer_map'.surfaces[k] = layer_map.surfaces[i]
                /\ initial_configure_sent'[s] = initial_configure_sent[s]
                /\ pending_size'[s] = pending_size[s]

\* C25: from the death of a layer surface's surface to the next refresh no layer
\* map operation uses it: an arrangement pass leaves its stored location as it was,
\* sends it no configure and adds nothing of it to the accumulators, the hit test
\* never returns it, no frame callback goes to it, and its entry stays in the map
\* until the refresh removes it.
C25_DeadUnusedUntilRefresh == []DeadUnused /\ [][DeadKeptUntilRefresh]_vars

\* An arrangement pass has run on the second output with a dead entry in the map
\* that was placed on the first: the entry is where it was, its bounding box still
\* holds a point, and the live layer surface has been moved and configured.
C25_Witness ==
    /\ Arranged
    /\ output_geometry.x # 0
    /\ \E i \in DeadEntries :
         /\ layer_map.surfaces[i].location = Pt(2, 2)
         /\ RectContains(layer_map.surfaces[i].bbox, Pt(3, 3))
         /\ ~initial_configure_sent[layer_map.surfaces[i].surface]
    /\ \E i \in LiveEntries :
         /\ layer_map.surfaces[i].location.x >= output_geometry.x
         /\ initial_configure_sent[layer_map.surfaces[i].surface]
    /\ layer_map.exclusive_zone # DefaultExclusiveZone

\* ------------------------------------------------------ claims: borrows
\* A step of the borrow model that is a commit of surface s, whether it promoted
\* the surface's window, and whether the surface is a layer surface of the map.
BorrowCommitOf(s) == CommitStepOf(s) /\ lastOp' \in {"commit"} \cup ArrangedOps
Promoted(s) == mapCount'[s] = mapCount[s] + 1

\* C27: whatever the committing surface is, a pending window, a mapped one, the
\* grabbed one, a layer surface or a surface without a role, the borrows its
\* commit takes of the layout and of the pending-map registry are all granted: none
\* is taken mutably while another borrow of the same store is live, nor shared
\* while a mutable one is.
C27_NoBorrowRefused ==
    [][\A s \in Surfaces :
          BorrowCommitOf(s) => BorrowsOk(CommitBorrows(Promoted(s), FoundLayer(s)))]_vars

\* The window was promoted by a commit, which borrows the layout inside the borrow
\* of the registry; the layer surface has committed, which runs the arrangement
\* pass after the lookup; the last commit is of the grabbed window, mapped.
C27_Witness ==
    /\ grabed_window # None
    /\ lastSurface = Grabbed
    /\ mappedStepRan
    /\ mapCount[Grabbed] = 1
    /\ \E s \in LayerSurfaces : InMap(s) /\ initial_configure_sent[s]
    /\ \E s \in Surfaces : role[s] = "none" /\ IsSome(surfaceData[s])

\* ------------------------------------------------------ claims: stale bounding box
\* The stored bounding box has the extent of the buffers the tree has now: it was
\* recomputed after the last buffer was attached.
ExtentCurrent(l) ==
    LET box == BoundingBox(l.surface, l.location, surfaceData)
    IN  l.bbox.w = box.w /\ l.bbox.h = box.h

\* The rectangle the surface's buffer covers at the stored location.
PlacedGeometry(l) == RectOf(l.location, Unwrap(DataSize(surfaceData, l.surface)))

\* C28: a point inside the geometry of a live layer surface with a buffer, at the
\* location the map stores for it, is a hit on that surface for its tier when no
\* layer surface of the tier inserted after it matches, also when an arrangement
\* pass has just moved the surface and no refresh has run since.
C28_HitTestFollowsPlacement ==
    \A i \in LiveEntries :
        LET l == layer_map.surfaces[i]
        IN  (IsSome(DataSize(surfaceData, l.surface)) /\ ExtentCurrent(l)) =>
                \A p \in Points :
                    (/\ RectContains(PlacedGeometry(l), p)
                     /\ \A k \in 1..(i - 1) :
                            layer_map.surfaces[k].layer = l.layer =>
                                Matching(layer_map.surfaces[k], p, surfaceData) = None)
                    => LET hit == GetSurfaceUnder(layer_map, l.layer, p, surfaceData)
                       IN  IsSome(hit) /\ Unwrap(hit).surface = l.surface

====
